---- MODULE Spec2Model ----
(***************************************************************************)
(* Model of the Brain SaaS intent router: the Telegram webhook handler,    *)
(* process_with_google and the GoogleService operations it calls.          *)
(*                                                                         *)
(* One behaviour is one webhook request, from the arrival of the update    *)
(* to the response.  The process state the request starts in (the          *)
(* calendar-id cache) and the state of the provider (the user's calendars) *)
(* are chosen in Init among the states earlier requests can leave behind.  *)
(***************************************************************************)
EXTENDS Integers, Sequences, FiniteSets, TLC

(***************************************************************************)
(* Bounds of the model.                                                    *)
(***************************************************************************)
\* events stored in the work calendar and in the personal calendar, at most
MaxPerCal == 4
\* events stored in the user's primary calendar, at most
MaxPrimary == 1

(***************************************************************************)
(* Text.  A string is a sequence of code points; "a'" stands for a         *)
(* precomposed accented letter a (acute, caron or ring), "'" alone for a   *)
(* combining mark (category Mn), so that "pla'n" and <<"p","l","a","'",    *)
(* "n">> are the two Unicode spellings of the same word.                   *)
(***************************************************************************)
LowerLetters ==
    <<"a", "b", "c", "d", "e", "f", "g", "h", "i", "j", "k", "l", "m", "n",
      "o", "p", "q", "r", "s", "t", "u", "v", "w", "x", "y", "z">>

UpperLetters ==
    <<"A", "B", "C", "D", "E", "F", "G", "H", "I", "J", "K", "L", "M", "N",
      "O", "P", "Q", "R", "S", "T", "U", "V", "W", "X", "Y", "Z">>

\* the letters that carry an accent in Czech: precomposed code points, the
\* lower-case and upper-case forms, and the letter NFD decomposes each to
AccentedLower == <<"a'", "c'", "d'", "e'", "i'", "n'", "o'", "r'", "s'", "t'", "u'", "y'", "z'">>

AccentedUpper == <<"A'", "C'", "D'", "E'", "I'", "N'", "O'", "R'", "S'", "T'", "U'", "Y'", "Z'">>

AccentedLowerBase == <<"a", "c", "d", "e", "i", "n", "o", "r", "s", "t", "u", "y", "z">>

AccentedUpperBase == <<"A", "C", "D", "E", "I", "N", "O", "R", "S", "T", "U", "Y", "Z">>

IndexOf(seq, c) == CHOOSE i \in 1..Len(seq) : seq[i] = c

InSeq(seq, c) == \E i \in 1..Len(seq) : seq[i] = c

Precomposed == {AccentedLower[i] : i \in 1..Len(AccentedLower)}
                  \cup {AccentedUpper[i] : i \in 1..Len(AccentedUpper)}

BaseLetter(c) ==
    CASE InSeq(AccentedLower, c) -> AccentedLowerBase[IndexOf(AccentedLower, c)]
      [] InSeq(AccentedUpper, c) -> AccentedUpperBase[IndexOf(AccentedUpper, c)]
      [] OTHER -> c

CombiningMarks == {"'"}

\* str.lower() on one code point
ToLower(c) ==
    CASE InSeq(UpperLetters, c) -> LowerLetters[IndexOf(UpperLetters, c)]
      [] InSeq(AccentedUpper, c) -> AccentedLower[IndexOf(AccentedUpper, c)]
      [] OTHER -> c

RECURSIVE NFD(_)
NFD(s) ==
    IF s = <<>> THEN <<>>
    ELSE (IF Head(s) \in Precomposed
             THEN <<BaseLetter(Head(s)), "'">>
             ELSE <<Head(s)>>) \o NFD(Tail(s))

StripMarks(s) == SelectSeq(s, LAMBDA c : c \notin CombiningMarks)

normalize_text(s) ==
    LET stripped == StripMarks(NFD(s))
    IN  [i \in 1..Len(stripped) |-> ToLower(stripped[i])]

\* Python's `needle in hay` on strings
Contains(hay, needle) ==
    \E i \in 0..(Len(hay) - Len(needle)) :
        \A j \in 1..Len(needle) : hay[i + j] = needle[j]

\* Python truthiness of an optional string: None and "" are both falsy.
\* An absent string field is modelled as the empty string.
Truthy(s) == Len(s) > 0

(***************************************************************************)
(* The provider: three calendars of the user's account, each a list of     *)
(* events in provider order.                                               *)
(***************************************************************************)
CalIds == {"W", "P", "primary"}

TitleTable ==
    << <<"J","a","n","i'","k">>,
       <<"D","a","n","a">>,
       <<"p","l","a","'","n">>,
       <<"J","A","N","I'","K">>,
       <<"H","a","n","a">> >>

TitleOf(k) == TitleTable[((k - 1) % Len(TitleTable)) + 1]

IdBase(cal) == CASE cal = "W" -> 100 [] cal = "P" -> 200 [] OTHER -> 300

\* the k-th event initially stored in calendar cal; start is the provider's
\* start.dateTime split into date and time of day, or start.date with an
\* empty time for an all-day event
StoredEvent(cal, k) ==
    [id |-> IdBase(cal) + k,
     title |-> TitleOf(IF cal = "W" THEN k ELSE k + 1),
     start |-> [date |-> "2025-06-15", time |-> IF k % 2 = 0 THEN "" ELSE "10:00"]]

InitialStores ==
    { [c \in CalIds |->
         [k \in 1..(CASE c = "W" -> nW [] c = "P" -> nP [] OTHER -> nX) |->
             StoredEvent(c, k)]] :
       nW \in 0..MaxPerCal, nP \in 0..MaxPerCal, nX \in 0..MaxPrimary }

Queries ==
    { <<"a","n">>,
      <<"J","a","n","i","k">>,
      <<"P","l","a'","n">>,
      <<"x">> }

(***************************************************************************)
(* State.                                                                  *)
(***************************************************************************)
VARIABLES
    pc,            \* position of the request in telegram_webhook / process_with_google
    user_id,       \* message.from.id of the update ("" before it is read)
    kind,          \* "voice", "text" or "" (neither key in the message)
    authorized,    \* the secret-token check and the whitelist check have passed
    intent_data,   \* the IntentRecord returned by ai_service.extract_intent
    response,      \* what the webhook's caller gets: "none", "ok", "401", "500"
    router,        \* process_with_google: "none", "running", "returned", "raised"
    store,         \* provider: the events of each calendar
    tasks,         \* provider: the pending tasks of the default task list
    cache,         \* GoogleService._calendar_ids_cache
    found,         \* search_result of the running UPDATE_EVENT / DELETE_EVENT
    mv,            \* locals of the running move_event_to_calendar
    calls,         \* provider and collaborator calls made by the request, in order
    sent,          \* sendMessage posts made by the request, in order
    log,           \* what the request printed
    call,          \* library: the function applied on its own and its arguments
    result,        \* library: what that function returned
    notified_events, \* NotificationService._notified_events
    marks,         \* history: the _mark_notified calls made, in order
    now,           \* the clock, in hours
    sweep,         \* position of each running reminder sweep
    reminders,     \* reminder messages sent by the sweeps, in order
    digest,        \* the last morning digest sweep: who it went through
    WHITELISTED_USERS \* auth_service.WHITELISTED_USERS, read from the environment at import

vars == <<pc, user_id, kind, authorized, intent_data, response, router, store, tasks,
          cache, found, mv, calls, sent, log,
          call, result, notified_events, marks, now, sweep, reminders, digest,
          WHITELISTED_USERS>>

\* the request of telegram_webhook / process_with_google
webVars == <<pc, user_id, kind, authorized, intent_data, response, router, store, tasks,
             cache, found, mv, calls, sent, log, WHITELISTED_USERS>>

\* the configuration of the process
envVars == <<WHITELISTED_USERS>>

\* a function of google_service applied on its own
libVars == <<call, result>>

\* the reminder sweeps of notification_service
notifVars == <<notified_events, marks, now, sweep, reminders, digest>>

Users == {"u1", "u2"}

\* WHITELISTED_USERS unset or empty, and a list that names a user: the
\* handler reads it once, before anything else it does for a user
Whitelists == { <<"">>, <<"u2">> }

\* the only user with a row in google_tokens
ConnectedUsers == {"u1"}

Intents ==
    {"TODO", "EVENT", "NOTE", "QUERY_CALENDAR", "QUERY_TASKS", "UPDATE_EVENT",
     "DELETE_EVENT", "COMPLETE_TASK", "SUMMARY", "UNKNOWN"}

\* intent_data.get("title", ...) of the classifier's record
IntentTitle == <<"N","a","k","u","p">>

\* the length of the longest title the classifier returns
MaxTitle == 4000

\* a title the classifier copied from a long message
LongTitle == [k \in 1..MaxTitle |-> "x"]

\* A record with every field the router reads; an absent (or null) string
\* field is "", an absent target_event is the empty string <<>>.
IntentRecord(intent, date, target_event, target_calendar, new_date, new_time, zitra) ==
    [intent |-> intent, title |-> IntentTitle,
     date |-> date, category |-> "", target_event |-> target_event,
     target_calendar |-> target_calendar, new_date |-> new_date,
     new_time |-> new_time, zitra |-> zitra]

NoIntent == IntentRecord("", "", <<>>, "", "", "", FALSE)

\* What the classifier can return.  Fields a branch never reads are left
\* absent: the router's behaviour does not depend on them.
IntentRecords ==
    { IntentRecord(i, "", <<>>, "", "", "", FALSE) :
        i \in (Intents \ {"EVENT", "UPDATE_EVENT", "DELETE_EVENT", "COMPLETE_TASK"}) \cup {""} }
    \cup { [IntentRecord("EVENT", d, <<>>, "", "", "", FALSE) EXCEPT !.category = c] :
             d \in {"", "2025-06-15"}, c \in {"", "work", "personal", "family"} }
    \cup { [IntentRecord("TODO", "", <<>>, "", "", "", FALSE) EXCEPT !.title = LongTitle] }
    \cup { IntentRecord(i, "", q, "", "", "", FALSE) :
             i \in {"DELETE_EVENT", "COMPLETE_TASK"}, q \in Queries \cup {<<>>} }
    \cup { IntentRecord("UPDATE_EVENT", "", q, c, "", "", FALSE) :
             q \in Queries \cup {<<>>}, c \in {"work", "personal", "holiday"} }
    \cup { IntentRecord("UPDATE_EVENT", "", q, "", nd, nt, z) :
             q \in Queries \cup {<<>>}, nd \in {"", "2025-06-20"},
             nt \in {"", "09:30"}, z \in BOOLEAN }

\* pending tasks without a due date, in provider order
InitialTasks ==
    << [id |-> 401, title |-> <<"p","l","a'","n">>, due |-> "", is_overdue |-> FALSE],
       [id |-> 402, title |-> <<"D","a","n","a">>, due |-> "", is_overdue |-> FALSE],
       [id |-> 403, title |-> <<"k","i","n","o">>, due |-> "", is_overdue |-> FALSE] >>

NoStart == [date |-> "", time |-> ""]

NoEvent == [id |-> 0, title |-> <<>>, start |-> NoStart]

NoMove ==
    [event_id |-> 0, source |-> "", target_type |-> "", target_id |-> "",
     copy |-> NoEvent, result |-> "none", error |-> ""]

NoSearch == [success |-> FALSE, events |-> <<>>]

\* no morning digest sweep has run
NoDigest == [ran |-> FALSE, listed |-> FALSE, processed |-> <<>>]

\* the mapping CalendarRegistry caches after a successful resolve
ResolvedCalendars == [work |-> "W", personal |-> "P"]

\* src/app/services/google_service.py:199-205
FallbackCalendars == [work |-> "primary", personal |-> "primary"]

Init ==
    /\ WHITELISTED_USERS \in Whitelists
    /\ pc = "idle"
    /\ user_id = ""
    /\ kind = ""
    /\ authorized = FALSE
    /\ intent_data = NoIntent
    /\ response = "none"
    /\ router = "none"
    /\ store \in InitialStores
    /\ tasks = InitialTasks
    /\ cache \in {[u \in us |-> ResolvedCalendars] : us \in {{}, ConnectedUsers}}
    /\ found = NoSearch
    /\ mv = NoMove
    /\ calls = <<>>
    /\ sent = <<>>
    /\ log = {}
    /\ call = [fn |-> "none"]
    /\ result = [fn |-> "none"]
    /\ notified_events = {}
    /\ marks = <<>>
    /\ now = 0
    /\ sweep = [p \in {} |-> "idle"]
    /\ reminders = <<>>
    /\ digest = NoDigest

(***************************************************************************)
(* Bookkeeping shared by the actions.                                      *)
(***************************************************************************)
\* a call on a collaborator: what was called, on which calendar (or with
\* which outcome code), for which event or task, and whether it succeeded
Call(op, arg, id, ok) == [op |-> op, arg |-> arg, id |-> id, ok |-> ok]

\* A text handed to sendMessage: the template it is rendered from and the
\* values substituted into it.  styled is parse_mode = "Markdown".
Msg(tpl, title, label, lines, styled) ==
    [tpl |-> tpl, title |-> title, label |-> label, lines |-> lines,
     count |-> Len(lines), styled |-> styled, delivered |-> TRUE]

\* client.post(.../sendMessage): delivered, or the post raised
Post(log_, msg, ok) == Append(log_, [msg EXCEPT !.delivered = ok])

(***************************************************************************)
(* telegram_webhook                                                        *)
(***************************************************************************)
\* src/app/api/endpoints/telegram.py:455-457
SecretRejected(expected_secret, header) ==
    expected_secret # "" /\ header # expected_secret

\* a check in which an empty list lets nobody in
is_authorized_ListOnly(whitelisted_users, uid) ==
    \E i \in 1..Len(whitelisted_users) : whitelisted_users[i] = uid

\* src/app/services/auth_service.py:7-12, WHITELISTED_USERS given as the
\* list that os.getenv(...).split(",") produced
is_authorized(whitelisted_users, uid) ==
    IF whitelisted_users = <<>> \/ whitelisted_users = <<"">>
    THEN TRUE
    ELSE \E i \in 1..Len(whitelisted_users) : whitelisted_users[i] = uid

Respond(r) ==
    /\ response' = r
    /\ pc' = "done"

WebhookReceive ==
    /\ pc = "idle"
    /\ \E expected_secret \in {"", "s3cret"}, header \in {"", "s3cret", "guess"},
          u \in Users \cup {""}, k \in {"voice", "text", ""} :
          /\ user_id' = u
          /\ kind' = k
          /\ IF SecretRejected(expected_secret, header)
             THEN /\ Respond("401")
                  /\ UNCHANGED <<authorized, log>>
             ELSE IF u = ""
             THEN /\ Respond("ok")
                  /\ UNCHANGED <<authorized, log>>
             ELSE IF ~is_authorized(WHITELISTED_USERS, u)
             THEN /\ Respond("ok")
                  /\ log' = log \cup {"unauthorized access attempt"}
                  /\ UNCHANGED authorized
             ELSE /\ authorized' = TRUE
                  /\ UNCHANGED log
                  /\ IF k = "voice"
                     THEN pc' = "wh_getfile" /\ UNCHANGED response
                     ELSE IF k = "text"
                     THEN pc' = "wh_extract" /\ UNCHANGED response
                     ELSE Respond("ok")
    /\ UNCHANGED <<envVars, libVars, notifVars, intent_data, router, store, tasks, cache, found, mv, calls, sent>>

\* src/app/api/endpoints/telegram.py:479-483
VoiceGetFile ==
    /\ pc = "wh_getfile"
    /\ \E outcome \in {"raise", "not ok", "ok"} :
          /\ calls' = Append(calls, Call("telegram.getFile", "", 0, outcome # "raise"))
          /\ CASE outcome = "raise" -> Respond("500")
               [] outcome = "not ok" -> Respond("ok")
               [] OTHER -> pc' = "wh_transcribe" /\ UNCHANGED response
    /\ UNCHANGED <<envVars, libVars, notifVars, user_id, kind, authorized, intent_data, router, store, tasks,
                   cache, found, mv, sent, log>>

\* src/app/api/endpoints/telegram.py:485-495 (the finally of 523-525 removes
\* the temporary file and lets the exception go on)
VoiceTranscribe ==
    /\ pc = "wh_transcribe"
    /\ \E ok \in BOOLEAN :
          /\ calls' = Append(calls, Call("ai.transcribe_voice", "", 0, ok))
          /\ IF ok THEN pc' = "wh_extract" /\ UNCHANGED response
                ELSE Respond("500")
    /\ UNCHANGED <<envVars, libVars, notifVars, user_id, kind, authorized, intent_data, router, store, tasks,
                   cache, found, mv, sent, log>>

\* src/app/api/endpoints/telegram.py:497 and 532; extract_intent has no
\* try/except around the OpenAI call and json.loads
ExtractIntent ==
    /\ pc = "wh_extract"
    /\ \/ /\ calls' = Append(calls, Call("ai.extract_intent", "", 0, FALSE))
          /\ Respond("500")
          /\ UNCHANGED intent_data
       \/ /\ calls' = Append(calls, Call("ai.extract_intent", "", 0, TRUE))
          /\ intent_data' \in IntentRecords
          /\ pc' = "wh_save"
          /\ UNCHANGED response
    /\ UNCHANGED <<envVars, libVars, notifVars, user_id, kind, authorized, router, store, tasks, cache, found,
                   mv, sent, log>>

\* src/app/api/endpoints/telegram.py:500-512 and 534-546: SessionLocal(),
\* db.add, db.commit and db.close follow each other with no try around
\* them, so a commit that raises leaves the handler before db.close
SaveCapture ==
    /\ pc = "wh_save"
    /\ \E ok \in BOOLEAN :
          /\ calls' = calls \o <<Call("db.commit", "", 0, ok)>>
                             \o (IF ok THEN <<Call("db.close", "", 0, TRUE)>> ELSE <<>>)
          /\ IF ok
             THEN pc' = "wh_confirm" /\ UNCHANGED response
             ELSE Respond("500")
    /\ UNCHANGED <<envVars, libVars, notifVars, user_id, kind, authorized, intent_data, router, store, tasks,
                   cache, found, mv, sent, log>>

\* src/app/api/endpoints/telegram.py:514-518 and 548-553
SendConfirmation ==
    /\ pc = "wh_confirm"
    /\ \E ok \in BOOLEAN :
          /\ sent' = Post(sent,
                          Msg(IF kind = "voice" THEN "VOICE_TRANSCRIBED" ELSE "TEXT_SAVED",
                              intent_data.title, intent_data.intent, <<>>, FALSE),
                          ok)
          /\ IF ok THEN /\ pc' = "pg_tokens"
                        /\ router' = "running"
                        /\ UNCHANGED response
                   ELSE /\ Respond("500")
                        /\ UNCHANGED router
    /\ UNCHANGED <<envVars, libVars, notifVars, user_id, kind, authorized, intent_data, store, tasks, cache,
                   found, mv, calls, log>>

(***************************************************************************)
(* GoogleService: CalendarRegistry and the queries                         *)
(***************************************************************************)
\* the order in which CALENDAR_NAMES and both mappings list the calendars
CalTypes == <<"work", "personal">>

\* src/app/services/google_service.py:159-205, get_or_create_calendars:
\* the mapping it returns, given whether the provider calls succeed
ResolveIds(uid, ok) ==
    IF uid \in DOMAIN cache THEN cache[uid]
    ELSE IF ok THEN ResolvedCalendars
    ELSE FallbackCalendars

\* ... the cache it leaves: only a successful resolve is cached
ResolveCache(uid, ok) ==
    IF uid \notin DOMAIN cache /\ ok
    THEN [u \in DOMAIN cache \cup {uid} |->
            IF u = uid THEN ResolvedCalendars ELSE cache[u]]
    ELSE cache

\* the logical calendars the provider does not list yet: in the model a
\* calendar that holds no event has not been created
MissingCalendars ==
    SelectSeq(CalTypes, LAMBDA t : store[ResolvedCalendars[t]] = <<>>)

\* a registry that asks the provider on every resolve
ResolveCallsUncached(uid, ok) ==
    <<Call("calendarList.list", "", 0, ok)>>

\* ... and the provider calls it makes on a cache miss: the list, and an
\* insert for each calendar that is not listed
ResolveCalls(uid, ok) ==
    IF uid \in DOMAIN cache THEN <<>>
    ELSE <<Call("calendarList.list", "", 0, ok)>>
         \o (IF ok
             THEN [k \in 1..Len(MissingCalendars) |->
                     Call("calendars.insert", ResolvedCalendars[MissingCalendars[k]], 0, TRUE)]
             ELSE <<>>)

\* calendars.get(key): the id of a logical calendar, "" when the key is absent
CalendarOf(ids, key) == IF key \in DOMAIN ids THEN ids[key] ELSE ""

RECURSIVE Flatten(_)
Flatten(ss) == IF ss = <<>> THEN <<>> ELSE Head(ss) \o Flatten(Tail(ss))

\* the events of both logical calendars as the loops over calendars.items()
\* collect them: calendar by calendar, each in provider order
ListedEvents(ids) ==
    Flatten([t \in 1..Len(CalTypes) |->
        LET cal == ids[CalTypes[t]]
        IN  [k \in 1..Len(store[cal]) |->
               [id |-> store[cal][k].id,
                title |-> store[cal][k].title,
                start |-> store[cal][k].start,
                calendar_id |-> cal,
                calendar_type |-> CalTypes[t]]]])

EventCalls(ids, ok) ==
    [t \in 1..Len(CalTypes) |-> Call("events.list", ids[CalTypes[t]], 0, ok)]

\* the order of the start strings the model uses, as Python compares them:
\* by date, an all-day start before the timed starts of its day
StartRank(start) ==
    (CASE start.date = "" -> 0
       [] start.date = "2025-06-15" -> 10
       [] start.date = "2025-06-16" -> 20
       [] OTHER -> 30)
    + (CASE start.time = "" -> 0
         [] start.time = "09:30" -> 1
         [] OTHER -> 2)

RECURSIVE InsertByStart(_, _)
InsertByStart(sorted, e) ==
    IF sorted = <<>> THEN <<e>>
    ELSE IF StartRank(e.start) < StartRank(Head(sorted).start)
         THEN <<e>> \o sorted
         ELSE <<Head(sorted)>> \o InsertByStart(Tail(sorted), e)

\* list.sort(key=start): a stable sort
RECURSIVE SortByStart(_)
SortByStart(es) ==
    IF es = <<>> THEN <<>>
    ELSE InsertByStart(SortByStart(SubSeq(es, 1, Len(es) - 1)), es[Len(es)])

\* src/app/services/google_service.py:344-410, get_events(query_type="today"):
\* every stored event of the model starts today
get_events(ids) == SortByStart(ListedEvents(ids))

Line(title, start) == [title |-> title, start |-> start]

EventLines(es) == [k \in 1..Len(es) |-> Line(es[k].title, es[k].start)]

TaskLines(ts) == [k \in 1..Len(ts) |-> Line(ts[k].title, [date |-> ts[k].due, time |-> ""])]

Take(seq, n) == SubSeq(seq, 1, IF Len(seq) < n THEN Len(seq) ELSE n)

FreshId ==
    LET ids == {0} \cup UNION { {store[c][k].id : k \in 1..Len(store[c])} : c \in CalIds }
                   \cup {tasks[k].id : k \in 1..Len(tasks)}
    IN  1 + (CHOOSE m \in ids : \A x \in ids : x <= m)

(***************************************************************************)
(* process_with_google                                                     *)
(***************************************************************************)
reqVars == <<user_id, kind, authorized, intent_data>>

\* src/app/api/endpoints/telegram.py:63-80 called at line 85, before the try
GetUserGoogleTokens ==
    /\ pc = "pg_tokens"
    /\ \E outcome \in {"raise", "none", "tokens"} :
          /\ calls' = Append(calls, Call("db.select_tokens",
                                     IF outcome = "tokens" /\ user_id \in ConnectedUsers
                                     THEN "row" ELSE "",
                                     0, outcome # "raise"))
          /\ CASE outcome = "raise" ->
                    /\ router' = "raised"
                    /\ Respond("500")
               [] outcome = "tokens" /\ user_id \in ConnectedUsers ->
                    /\ pc' = "pg_dispatch"
                    /\ UNCHANGED <<router, response>>
               [] OTHER ->
                    /\ router' = "returned"
                    /\ pc' = "wh_return"
                    /\ UNCHANGED response
    /\ UNCHANGED <<envVars, libVars, notifVars, reqVars, store, tasks, cache, found, mv, sent, log>>

\* the chain without the preconditions on date and target_event
BranchUnguarded(d) ==
    IF d.intent \in {"EVENT", "TODO", "NOTE", "QUERY_CALENDAR", "QUERY_TASKS",
                     "UPDATE_EVENT", "DELETE_EVENT", "SUMMARY"}
    THEN d.intent ELSE "none"

\* the if/elif chain of src/app/api/endpoints/telegram.py:106-392
Branch(d) ==
    IF d.intent = "EVENT" /\ d.date # "" THEN "EVENT"
    ELSE IF d.intent = "TODO" THEN "TODO"
    ELSE IF d.intent = "NOTE" THEN "NOTE"
    ELSE IF d.intent = "QUERY_CALENDAR" THEN "QUERY_CALENDAR"
    ELSE IF d.intent = "QUERY_TASKS" THEN "QUERY_TASKS"
    ELSE IF d.intent = "UPDATE_EVENT" /\ Truthy(d.target_event) THEN "UPDATE_EVENT"
    ELSE IF d.intent = "DELETE_EVENT" /\ Truthy(d.target_event) THEN "DELETE_EVENT"
    ELSE IF d.intent = "SUMMARY" THEN "SUMMARY"
    ELSE "none"

\* the end of process_with_google: `return result`, after the except of
\* lines 440-443 when something inside the try raised
Return(raised) ==
    /\ router' = "returned"
    /\ pc' = "wh_return"
    /\ log' = IF raised THEN log \cup {"Error processing with Google"} ELSE log

\* src/app/api/endpoints/telegram.py:106-129 and
\* src/app/services/google_service.py:207-297
RouteEvent ==
    /\ pc = "pg_dispatch"
    /\ Branch(intent_data) = "EVENT"
    /\ \E resolve_ok \in BOOLEAN, insert_ok \in BOOLEAN, post_ok \in BOOLEAN,
          detected \in {"work", "personal"} :
          LET ids == ResolveIds(user_id, resolve_ok)
              category == IF intent_data.category # "" THEN intent_data.category
                          ELSE detected
              cal == IF category \in DOMAIN ids THEN ids[category] ELSE "primary"
              ev == [id |-> FreshId, title |-> intent_data.title,
                     start |-> [date |-> intent_data.date, time |-> ""]]
          IN  /\ cache' = ResolveCache(user_id, resolve_ok)
              /\ calls' = calls \o ResolveCalls(user_id, resolve_ok)
                                \o <<Call("events.insert", cal, ev.id, insert_ok)>>
              /\ IF insert_ok
                 THEN /\ store' = [store EXCEPT ![cal] = Append(@, ev)]
                      /\ sent' = Post(sent,
                                      Msg("EVENT_CREATED", intent_data.title,
                                          IF category = "work" THEN "Prace" ELSE "Osobni",
                                          <<>>, TRUE),
                                      post_ok)
                      /\ Return(~post_ok)
                 ELSE /\ Return(FALSE)
                      /\ UNCHANGED <<store, sent>>
    /\ UNCHANGED <<envVars, libVars, notifVars, reqVars, response, tasks, found, mv>>

\* src/app/api/endpoints/telegram.py:131-148 and
\* src/app/services/google_service.py:299-340 (only HttpError is caught there)
RouteTodo ==
    /\ pc = "pg_dispatch"
    /\ Branch(intent_data) = "TODO"
    /\ \E outcome \in {"ok", "HttpError", "error"}, post_ok \in BOOLEAN :
          LET id == FreshId
          IN  /\ calls' = calls \o <<Call("tasks.insert", "", id, outcome = "ok")>>
              /\ IF outcome = "ok"
                 THEN /\ tasks' = Append(tasks, [id |-> id, title |-> intent_data.title,
                                                 due |-> "", is_overdue |-> FALSE])
                      /\ sent' = Post(sent, Msg("TASK_CREATED", intent_data.title, "", <<>>, TRUE),
                                      post_ok)
                      /\ Return(~post_ok)
                 ELSE /\ Return(outcome = "error")
                      /\ UNCHANGED <<tasks, sent>>
    /\ UNCHANGED <<envVars, libVars, notifVars, reqVars, response, store, cache, found, mv>>

\* the NOTE branch that does not look at the status code
NoteTemplateAnyStatus(status) == "NOTE_SAVED"

\* the template the NOTE branch renders for an answer of the note storage
\* src/app/api/endpoints/telegram.py:165-183
NoteTemplate(status) == IF status = "200" THEN "NOTE_SAVED" ELSE "NOTE_SAVED_LOCAL"

\* src/app/api/endpoints/telegram.py:150-194
RouteNote ==
    /\ pc = "pg_dispatch"
    /\ Branch(intent_data) = "NOTE"
    /\ \E status \in {"200", "500", "raise"}, post_ok \in BOOLEAN, fallback_ok \in BOOLEAN :
          /\ calls' = Append(calls, Call("notes.post", status, 0, status # "raise"))
          /\ IF status # "raise" /\ post_ok
             THEN /\ sent' = Post(sent, Msg(NoteTemplate(status), intent_data.title, "", <<>>, TRUE),
                                  TRUE)
                  /\ Return(FALSE)
             ELSE \* the note post or the first sendMessage raised: except of line 184
                  /\ sent' = Post(IF status = "raise" THEN sent
                                  ELSE Post(sent, Msg(NoteTemplate(status), intent_data.title, "",
                                                      <<>>, TRUE), FALSE),
                                  Msg("NOTE_FALLBACK", intent_data.title, "", <<>>, TRUE),
                                  fallback_ok)
                  /\ Return(~fallback_ok)
    /\ UNCHANGED <<envVars, libVars, notifVars, reqVars, response, store, tasks, cache, found, mv>>

\* src/app/api/endpoints/telegram.py:197-230
RouteQueryCalendar ==
    /\ pc = "pg_dispatch"
    /\ Branch(intent_data) = "QUERY_CALENDAR"
    /\ \E resolve_ok \in BOOLEAN, list_ok \in BOOLEAN, post_ok \in BOOLEAN :
          LET ids == ResolveIds(user_id, resolve_ok)
              events == get_events(ids)
          IN  /\ cache' = ResolveCache(user_id, resolve_ok)
              /\ calls' = calls \o ResolveCalls(user_id, resolve_ok) \o EventCalls(ids, list_ok)
              /\ IF list_ok
                 THEN /\ sent' = Post(sent,
                                      Msg(IF events # <<>> THEN "CALENDAR_EVENTS" ELSE "NO_EVENTS",
                                          <<>>, "", EventLines(events), TRUE),
                                      post_ok)
                      /\ Return(~post_ok)
                 ELSE /\ Return(FALSE)
                      /\ UNCHANGED sent
    /\ UNCHANGED <<envVars, libVars, notifVars, reqVars, response, store, tasks, found, mv>>

\* src/app/api/endpoints/telegram.py:232-259
RouteQueryTasks ==
    /\ pc = "pg_dispatch"
    /\ Branch(intent_data) = "QUERY_TASKS"
    /\ \E list_ok \in BOOLEAN, post_ok \in BOOLEAN :
          /\ calls' = Append(calls, Call("tasks.list", "", 0, list_ok))
          /\ IF list_ok
             THEN /\ sent' = Post(sent,
                                  Msg(IF tasks # <<>> THEN "TASKS_HEADER" ELSE "NO_TASKS",
                                      <<>>, "", TaskLines(tasks), TRUE),
                                  post_ok)
                  /\ Return(~post_ok)
             ELSE /\ Return(FALSE)
                  /\ UNCHANGED sent
    /\ UNCHANGED <<envVars, libVars, notifVars, reqVars, response, store, tasks, cache, found, mv>>

\* src/app/api/endpoints/telegram.py:392-438; send_voice_response (20-60)
\* catches everything it raises
RouteSummary ==
    /\ pc = "pg_dispatch"
    /\ Branch(intent_data) = "SUMMARY"
    /\ \E resolve_ok \in BOOLEAN, events_ok \in BOOLEAN, tasks_ok \in BOOLEAN,
          post_ok \in BOOLEAN, voice_ok \in BOOLEAN :
          LET ids == ResolveIds(user_id, resolve_ok)
              events == IF events_ok THEN get_events(ids) ELSE <<>>
              pending == IF tasks_ok THEN tasks ELSE <<>>
          IN  /\ cache' = ResolveCache(user_id, resolve_ok)
              /\ calls' = calls \o ResolveCalls(user_id, resolve_ok) \o EventCalls(ids, events_ok)
                                \o <<Call("tasks.list", "", 0, tasks_ok)>>
                                \o (IF post_ok THEN <<Call("ai.text_to_speech", "", 0, voice_ok)>>
                                    ELSE <<>>)
              /\ sent' = Post(sent,
                              Msg("SUMMARY", <<>>, "",
                                  EventLines(events) \o TaskLines(Take(pending, 5)), TRUE),
                              post_ok)
              /\ Return(~post_ok)
    /\ UNCHANGED <<envVars, libVars, notifVars, reqVars, response, store, tasks, found, mv>>

(***************************************************************************)
(* UPDATE_EVENT, DELETE_EVENT and the operations on the single match       *)
(***************************************************************************)
\* src/app/services/google_service.py:484-508: the listed events whose
\* normalized title contains the normalized query
MatchingEvents(ids, query) ==
    SelectSeq(ListedEvents(ids),
              LAMBDA e : Contains(normalize_text(e.title), normalize_text(query)))

\* src/app/services/google_service.py:467-517, search_event
search_event(ids, query, list_ok) ==
    IF list_ok THEN [success |-> TRUE, events |-> MatchingEvents(ids, query)]
    ELSE [success |-> FALSE, events |-> <<>>]

\* the clarification list without its cap
ClarifyLinesUncapped(events) == EventLines(events)

\* events[:5] of the clarification lists, telegram.py:334 and 376
ClarifyLines(events) == EventLines(Take(events, 5))

\* telegram.py:270 and 357: `search_result.get("success") and search_result.get("events")`
HasMatches(r) == r.success /\ r.events # <<>>

\* the search of an UPDATE_EVENT or DELETE_EVENT and what the router does
\* right after it; `single` is where it goes on with exactly one match
SearchThenBranch(clarify, single) ==
    \E resolve_ok \in BOOLEAN, list_ok \in BOOLEAN, post_ok \in BOOLEAN :
        LET ids == ResolveIds(user_id, resolve_ok)
            r == search_event(ids, intent_data.target_event, list_ok)
        IN  /\ cache' = ResolveCache(user_id, resolve_ok)
            /\ calls' = calls \o ResolveCalls(user_id, resolve_ok) \o EventCalls(ids, list_ok)
            /\ found' = r
            /\ IF HasMatches(r)
               THEN IF Len(r.events) = 1
                    THEN /\ pc' = single
                         /\ UNCHANGED <<router, log, sent>>
                    ELSE /\ sent' = Post(sent,
                                         [Msg(clarify, <<>>, "", ClarifyLines(r.events), FALSE)
                                            EXCEPT !.count = Len(r.events)],
                                         post_ok)
                         /\ Return(~post_ok)
               ELSE /\ sent' = Post(sent,
                                    Msg("EVENT_NOT_FOUND", intent_data.target_event, "",
                                        <<>>, FALSE),
                                    post_ok)
                    /\ Return(~post_ok)

\* an UPDATE_EVENT that takes every request for a date/time update
AfterSingleMatchUpdateOnly(d) == "up_update"

\* telegram.py:278: `if target_calendar:` chooses between the move and the update
AfterSingleMatch(d) ==
    IF d.target_calendar # "" THEN "mv_resolve" ELSE "up_update"

\* src/app/api/endpoints/telegram.py:262-278 and 332-347
RouteUpdateSearch ==
    /\ pc = "pg_dispatch"
    /\ Branch(intent_data) = "UPDATE_EVENT"
    /\ SearchThenBranch("MULTIPLE_EVENTS_FOUND", AfterSingleMatch(intent_data))
    /\ UNCHANGED <<envVars, libVars, notifVars, reqVars, response, store, tasks, mv>>

\* src/app/api/endpoints/telegram.py:349-361 and 375-389
RouteDeleteSearch ==
    /\ pc = "pg_dispatch"
    /\ Branch(intent_data) = "DELETE_EVENT"
    /\ SearchThenBranch("MULTIPLE_EVENTS_DELETE", "del_delete")
    /\ UNCHANGED <<envVars, libVars, notifVars, reqVars, response, store, tasks, mv>>

\* the provider's copy of an event
StoredIn(cal, id) ==
    LET hits == SelectSeq(store[cal], LAMBDA e : e.id = id)
    IN  IF hits = <<>> THEN NoEvent ELSE hits[1]

Without(cal, id) == SelectSeq(store[cal], LAMBDA e : e.id # id)

InSomeCalendar(title) ==
    \E c \in CalIds : \E k \in 1..Len(store[c]) : store[c][k].title = title

\* a move that never notices that the event is already there
SameCalendarUnchecked(source_calendar_id, target_calendar_id) == FALSE

\* src/app/services/google_service.py:668: "already in the target calendar"
SameCalendar(source_calendar_id, target_calendar_id) ==
    source_calendar_id = target_calendar_id

\* src/app/services/google_service.py:660-672, the start of
\* move_event_to_calendar, called from telegram.py:279-285
MoveResolve ==
    /\ pc = "mv_resolve"
    /\ \E resolve_ok \in BOOLEAN :
          LET ids == ResolveIds(user_id, resolve_ok)
              event == found.events[1]
              target == CalendarOf(ids, intent_data.target_calendar)
              m == [NoMove EXCEPT !.event_id = event.id,
                                  !.source = event.calendar_id,
                                  !.target_type = intent_data.target_calendar,
                                  !.target_id = target]
          IN  /\ cache' = ResolveCache(user_id, resolve_ok)
              /\ calls' = calls \o <<Call("move_event_to_calendar", event.calendar_id,
                                          event.id, TRUE)>>
                                \o ResolveCalls(user_id, resolve_ok)
              /\ IF target = ""
                 THEN /\ mv' = [m EXCEPT !.result = "failed", !.error = "calendar not found"]
                      /\ pc' = "mv_reply"
                 ELSE IF SameCalendar(event.calendar_id, target)
                 THEN /\ mv' = [m EXCEPT !.result = "failed", !.error = "already in calendar"]
                      /\ pc' = "mv_reply"
                 ELSE /\ mv' = m
                      /\ pc' = "mv_get"
    /\ UNCHANGED <<envVars, libVars, notifVars, reqVars, response, router, store, tasks, found, sent, log>>

\* a move that deletes the source before it inserts the copy
MoveStepsDeleteFirst == <<"mv_get", "mv_delete", "mv_insert">>

\* the provider calls of move_event_to_calendar in the order the code makes
\* them: google_service.py:675, 689, 692
MoveSteps == <<"mv_get", "mv_insert", "mv_delete">>

AfterMoveStep(step) ==
    LET i == CHOOSE k \in 1..Len(MoveSteps) : MoveSteps[k] = step
    IN  IF i = Len(MoveSteps) THEN "mv_reply" ELSE MoveSteps[i + 1]

\* a provider call of the move returned: go on, or return the success
\* result of lines 696-703 after the last one
MoveOn(m) ==
    /\ pc' = AfterMoveStep(pc)
    /\ mv' = IF AfterMoveStep(pc) = "mv_reply" THEN [m EXCEPT !.result = "success"] ELSE m

\* a provider call of the move raised: except of lines 705-706
MoveFails ==
    /\ pc' = "mv_reply"
    /\ mv' = [mv EXCEPT !.result = "failed", !.error = "exception text"]

\* src/app/services/google_service.py:674-686
MoveGet ==
    /\ pc = "mv_get"
    /\ \E ok \in BOOLEAN :
          /\ calls' = Append(calls, Call("events.get", mv.source, mv.event_id, ok))
          /\ IF ok THEN MoveOn([mv EXCEPT !.copy = StoredIn(mv.source, mv.event_id)])
                   ELSE MoveFails
    /\ UNCHANGED <<envVars, libVars, notifVars, reqVars, response, router, store, tasks, cache, found, sent, log>>

\* src/app/services/google_service.py:688-689
MoveInsert ==
    /\ pc = "mv_insert"
    /\ \E ok \in BOOLEAN :
          /\ calls' = Append(calls, Call("events.insert", mv.target_id, mv.event_id, ok))
          /\ IF ok
             THEN /\ store' = [store EXCEPT ![mv.target_id] =
                                  Append(@, [mv.copy EXCEPT !.id = FreshId])]
                  /\ MoveOn(mv)
             ELSE /\ MoveFails
                  /\ UNCHANGED store
    /\ UNCHANGED <<envVars, libVars, notifVars, reqVars, response, router, tasks, cache, found, sent, log>>

\* src/app/services/google_service.py:691-692
MoveDelete ==
    /\ pc = "mv_delete"
    /\ \E ok \in BOOLEAN :
          /\ calls' = Append(calls, Call("events.delete", mv.source, mv.event_id, ok))
          /\ IF ok
             THEN /\ store' = [store EXCEPT ![mv.source] = Without(mv.source, mv.event_id)]
                  /\ MoveOn(mv)
             ELSE /\ MoveFails
                  /\ UNCHANGED store
    /\ UNCHANGED <<envVars, libVars, notifVars, reqVars, response, router, tasks, cache, found, sent, log>>

\* CALENDAR_NAMES.get(target_calendar_type, target_calendar_type),
\* src/app/services/google_service.py:37-40 and 694
CalendarName(type) ==
    CASE type = "work" -> "Vlastikuv druhy mozek - Prace"
      [] type = "personal" -> "Vlastikuv druhy mozek - Osobni"
      [] OTHER -> type

\* src/app/api/endpoints/telegram.py:287-303
RouteMoveReply ==
    /\ pc = "mv_reply"
    /\ \E post_ok \in BOOLEAN :
          /\ sent' = Post(sent,
                          IF mv.result = "success"
                          THEN Msg("EVENT_MOVED_CALENDAR", found.events[1].title,
                                   CalendarName(intent_data.target_calendar), <<>>, TRUE)
                          ELSE Msg("FAILURE", <<>>, mv.error, <<>>, FALSE),
                          post_ok)
          /\ Return(~post_ok)
    /\ UNCHANGED <<envVars, libVars, notifVars, reqVars, response, store, tasks, cache, found, mv, calls>>

\* the date the "zitra" heuristic of telegram.py:308-309 synthesizes
Tomorrow == "2025-06-16"

\* src/app/api/endpoints/telegram.py:304-331 and
\* src/app/services/google_service.py:521-580
RouteUpdateEvent ==
    /\ pc = "up_update"
    /\ \E get_ok \in BOOLEAN, update_ok \in BOOLEAN, post_ok \in BOOLEAN :
          LET event == found.events[1]
              new_date == IF intent_data.new_date = "" /\ intent_data.zitra
                          THEN Tomorrow ELSE intent_data.new_date
              new_time == intent_data.new_time
              old == StoredIn(event.calendar_id, event.id)
              is_all_day == old.start.time = ""
              start == [date |-> IF new_date # "" THEN new_date ELSE old.start.date,
                        time |-> IF ~is_all_day /\ new_time # "" THEN new_time
                                 ELSE old.start.time]
          IN  /\ calls' = calls \o <<Call("update_event", event.calendar_id, event.id, TRUE),
                                     Call("events.get", event.calendar_id, event.id, get_ok)>>
                                \o (IF get_ok
                                    THEN <<Call("events.update", event.calendar_id, event.id,
                                                update_ok)>>
                                    ELSE <<>>)
              /\ IF get_ok /\ update_ok
                 THEN /\ store' = [store EXCEPT ![event.calendar_id] =
                                      [k \in 1..Len(@) |->
                                          IF @[k].id = event.id
                                          THEN [@[k] EXCEPT !.start = start] ELSE @[k]]]
                      /\ sent' = Post(sent,
                                      Msg("EVENT_UPDATED", event.title, "",
                                          <<Line(<<>>, [date |-> new_date, time |-> new_time])>>,
                                          TRUE),
                                      post_ok)
                      /\ Return(~post_ok)
                 ELSE /\ Return(FALSE)
                      /\ UNCHANGED <<store, sent>>
    /\ UNCHANGED <<envVars, libVars, notifVars, reqVars, response, tasks, cache, found, mv>>

\* src/app/api/endpoints/telegram.py:360-374 and
\* src/app/services/google_service.py:582-607
RouteDeleteEvent ==
    /\ pc = "del_delete"
    /\ \E get_ok \in BOOLEAN, delete_ok \in BOOLEAN, post_ok \in BOOLEAN :
          LET event == found.events[1]
              old == StoredIn(event.calendar_id, event.id)
          IN  /\ calls' = calls \o <<Call("delete_event", event.calendar_id, event.id, TRUE),
                                     Call("events.get", event.calendar_id, event.id, get_ok)>>
                                \o (IF get_ok
                                    THEN <<Call("events.delete", event.calendar_id, event.id,
                                                delete_ok)>>
                                    ELSE <<>>)
              /\ IF get_ok /\ delete_ok
                 THEN /\ store' = [store EXCEPT ![event.calendar_id] =
                                      Without(event.calendar_id, event.id)]
                      /\ sent' = Post(sent, Msg("EVENT_DELETED", old.title, "", <<>>, TRUE),
                                      post_ok)
                      /\ Return(~post_ok)
                 ELSE /\ Return(FALSE)
                      /\ UNCHANGED <<store, sent>>
    /\ UNCHANGED <<envVars, libVars, notifVars, reqVars, response, tasks, cache, found, mv>>

\* no branch of the chain matches: the router falls through to `return result`
RouteNothing ==
    /\ pc = "pg_dispatch"
    /\ Branch(intent_data) = "none"
    /\ Return(FALSE)
    /\ UNCHANGED <<envVars, libVars, notifVars, reqVars, response, store, tasks, cache, found, mv, calls, sent>>

\* src/app/api/endpoints/telegram.py:558
WebhookReturn ==
    /\ pc = "wh_return"
    /\ Respond("ok")
    /\ UNCHANGED <<envVars, libVars, notifVars, reqVars, router, store, tasks, cache, found, mv, calls, sent, log>>

\* the process dies (a deploy, a kill, a power cut) at a step of a move
Crash ==
    /\ pc \in {"mv_resolve", "mv_get", "mv_insert", "mv_delete", "mv_reply"}
    /\ pc' = "crashed"
    /\ UNCHANGED <<envVars, libVars, notifVars, reqVars, response, router, store, tasks, cache, found, mv,
                   calls, sent, log>>

Next ==
    \/ WebhookReceive
    \/ VoiceGetFile
    \/ VoiceTranscribe
    \/ ExtractIntent
    \/ SaveCapture
    \/ SendConfirmation
    \/ GetUserGoogleTokens
    \/ RouteEvent
    \/ RouteTodo
    \/ RouteNote
    \/ RouteQueryCalendar
    \/ RouteQueryTasks
    \/ RouteUpdateSearch
    \/ RouteDeleteSearch
    \/ MoveResolve
    \/ MoveGet
    \/ MoveInsert
    \/ MoveDelete
    \/ RouteMoveReply
    \/ RouteUpdateEvent
    \/ RouteDeleteEvent
    \/ RouteSummary
    \/ RouteNothing
    \/ WebhookReturn
    \/ Crash

Spec == Init /\ [][Next]_vars

\* len() of what the templates rendered from one value put around it:
\* src/app/utils/messages.py:16-19, 52, 57 and the confirmation of
\* src/app/api/endpoints/telegram.py:552
FixedLength ==
    [TASK_CREATED |-> 36, NOTE_SAVED |-> 25, NOTE_SAVED_LOCAL |-> 65, NOTE_FALLBACK |-> 26,
     TEXT_SAVED |-> 11, EVENT_NOT_FOUND |-> 36, EVENT_DELETED |-> 24]

\* len() of the "text" of a sendMessage post rendered from one value:
\* telegram.py:145, 170, 180, 191, 346, 373, 388 and 552 post it uncut
TextLength(m) == FixedLength[m.tpl] + Len(m.title)

(***************************************************************************)
(* GoogleService.detect_event_category                                     *)
(***************************************************************************)
\* src/app/services/google_service.py:43-48
WORK_KEYWORDS ==
    <<<<"s", "c", "h", "u'", "z", "k", "a">>,
      <<"m", "e", "e", "t", "i", "n", "g">>,
      <<"k", "l", "i", "e", "n", "t">>,
      <<"p", "r", "o", "j", "e", "k", "t">>,
      <<"p", "r", "a'", "c", "e">>,
      <<"d", "e", "a", "d", "l", "i", "n", "e">>,
      <<"p", "r", "e", "z", "e", "n", "t", "a", "c", "e">>,
      <<"c", "a", "l", "l">>,
      <<"c", "o", "n", "f", "e", "r", "e", "n", "c", "e">>,
      <<"o", "f", "f", "i", "c", "e">>,
      <<"f", "i", "r", "m", "a">>,
      <<"b", "u", "s", "i", "n", "e", "s", "s">>,
      <<"r", "e", "p", "o", "r", "t">>,
      <<"t", "e", "a", "m">>,
      <<"s", "p", "r", "i", "n", "t">>,
      <<"r", "e", "v", "i", "e", "w">>,
      <<"s", "t", "a", "n", "d", "u", "p">>,
      <<"s", "y", "n", "c">>,
      <<"e", "m", "a", "i", "l">>,
      <<"m", "a", "i", "l">>,
      <<"u'", "k", "o", "l">>,
      <<"t", "a", "s", "k">>,
      <<"b", "u", "d", "g", "e", "t">>,
      <<"s", "m", "l", "o", "u", "v", "a">>,
      <<"c", "o", "n", "t", "r", "a", "c", "t">>>>

\* src/app/services/google_service.py:50-56
PERSONAL_KEYWORDS ==
    <<<<"r", "o", "d", "i", "n", "a">>,
      <<"m", "a", "n", "z'", "e", "l", "k", "a">>,
      <<"d", "e'", "t", "i">>,
      <<"n", "a", "r", "o", "z", "e", "n", "i", "n", "y">>,
      <<"v", "y'", "r", "o", "c'", "i'">>,
      <<"d", "o", "k", "t", "o", "r">>,
      <<"l", "e'", "k", "a", "r'">>,
      <<"n", "a'", "k", "u", "p">>,
      <<"d", "o", "m", "a'", "c", "n", "o", "s", "t">>,
      <<"v", "e", "c'", "e", "r'", "e">>,
      <<"o", "b", "e'", "d">>,
      <<"v", "i'", "k", "e", "n", "d">>,
      <<"d", "o", "v", "o", "l", "e", "n", "a'">>,
      <<"s", "p", "o", "r", "t">>,
      <<"f", "i", "t", "n", "e", "s", "s">>,
      <<"k", "a", "m", "a", "r", "a'", "d">>,
      <<"p", "r'", "a'", "t", "e", "l", "e'">>,
      <<"p", "a", "r", "t", "y">>,
      <<"o", "s", "l", "a", "v", "a">>,
      <<"p", "e", "s">>,
      <<"k", "o", "c'", "k", "a">>,
      <<"d", "o", "m", "o", "v">>,
      <<"b", "y", "t">>,
      <<"d", "u'", "m">>,
      <<"a", "u", "t", "o">>,
      <<"h", "o", "b", "b", "y">>,
      <<"v", "o", "l", "n", "o">>,
      <<"r", "e", "l", "a", "x">>,
      <<"f", "i", "l", "m">>,
      <<"k", "o", "n", "c", "e", "r", "t">>,
      <<"d", "i", "v", "a", "d", "l", "o">>>>

\* sum(1 for keyword in keywords if normalize_text(keyword) in text_normalized)
Score(keywords, text_normalized) ==
    Len(SelectSeq(keywords,
                  LAMBDA keyword : Contains(text_normalized, normalize_text(keyword))))

\* a classifier that gives a tie to "personal"
detect_event_category_TiesPersonal(text) ==
    LET text_normalized == normalize_text(text)
    IN  IF Score(PERSONAL_KEYWORDS, text_normalized) >= Score(WORK_KEYWORDS, text_normalized)
        THEN "personal" ELSE "work"

\* src/app/services/google_service.py:143-157
detect_event_category(text) ==
    LET text_normalized == normalize_text(text)
        work_score == Score(WORK_KEYWORDS, text_normalized)
        personal_score == Score(PERSONAL_KEYWORDS, text_normalized)
    IN  IF personal_score > work_score THEN "personal" ELSE "work"

\* the longest text, in words
MaxWords == 3

\* words of event titles: keywords of both lists in accented, unaccented,
\* upper-case and decomposed spellings, a word that holds two keywords
\* ("email" holds "mail"), and a word that holds none
Words ==
    { <<"S", "c", "h", "u'", "z", "k", "a">>,
      <<"s", "c", "h", "u", "z", "k", "a">>,
      <<"M", "E", "E", "T", "I", "N", "G">>,
      <<"e", "m", "a", "i", "l">>,
      <<"n", "a", "r", "o", "z", "e", "n", "i", "n", "y">>,
      <<"d", "e", "'", "t", "i">>,
      <<"R", "O", "D", "I", "N", "A">>,
      <<"n", "e", "c", "o">> }

RECURSIVE Join(_)
Join(ws) ==
    IF ws = <<>> THEN <<>>
    ELSE IF Len(ws) = 1 THEN ws[1]
    ELSE ws[1] \o <<" ">> \o Join(Tail(ws))

Texts == {Join(ws) : ws \in UNION {[1..n -> Words] : n \in 0..MaxWords}}

ClassifyCalls == {[fn |-> "detect_event_category", text |-> t] : t \in Texts}

(***************************************************************************)
(* datetime.  A date is [year, month, day], a datetime a date with hour    *)
(* and minute; arithmetic goes through the proleptic Gregorian ordinal as  *)
(* in Python's datetime (date + timedelta, datetime - datetime).           *)
(***************************************************************************)
IsLeap(y) == (y % 4 = 0) /\ ((y % 100 # 0) \/ (y % 400 = 0))

DaysInMonth(y, m) ==
    CASE m \in {4, 6, 9, 11} -> 30
      [] m = 2 -> (IF IsLeap(y) THEN 29 ELSE 28)
      [] OTHER -> 31

\* days before January 1st of year y
DaysBeforeYear(y) ==
    LET p == y - 1 IN p * 365 + (p \div 4) - (p \div 100) + (p \div 400)

RECURSIVE DaysBeforeMonth(_, _)
DaysBeforeMonth(y, m) ==
    IF m = 1 THEN 0 ELSE DaysBeforeMonth(y, m - 1) + DaysInMonth(y, m - 1)

ToOrdinal(d) == DaysBeforeYear(d.year) + DaysBeforeMonth(d.year, d.month) + d.day

\* the years datetime values of the model fall in
YearRange == 1999..2102

FromOrdinal(n) ==
    LET y == CHOOSE yy \in YearRange : DaysBeforeYear(yy) < n /\ n <= DaysBeforeYear(yy + 1)
        rest == n - DaysBeforeYear(y)
        m == CHOOSE mm \in 1..12 :
                 /\ DaysBeforeMonth(y, mm) < rest
                 /\ rest <= DaysBeforeMonth(y, mm) + DaysInMonth(y, mm)
    IN  [year |-> y, month |-> m, day |-> rest - DaysBeforeMonth(y, m)]

\* date + timedelta(days=n)
AddDays(d, n) == FromOrdinal(ToOrdinal(d) + n)

\* minutes since the start of ordinal day 0
ToMinutes(dt) == ToOrdinal(dt) * 1440 + dt.hour * 60 + dt.minute

FromMinutes(n) ==
    LET d == FromOrdinal(n \div 1440)
    IN  [year |-> d.year, month |-> d.month, day |-> d.day,
         hour |-> (n % 1440) \div 60, minute |-> n % 60]

\* datetime + timedelta(minutes=n)
AddMinutes(dt, n) == FromMinutes(ToMinutes(dt) + n)

\* datetime.replace(hour=..., minute=...) on a date parsed by strptime
AtTime(d, t) ==
    [year |-> d.year, month |-> d.month, day |-> d.day, hour |-> t.hour, minute |-> t.minute]

DateOf(dt) == [year |-> dt.year, month |-> dt.month, day |-> dt.day]

ValidDates(years) ==
    {d \in [year : years, month : 1..12, day : 1..31] : d.day <= DaysInMonth(d.year, d.month)}

(***************************************************************************)
(* GoogleService.create_calendar_event                                     *)
(***************************************************************************)
\* time=None
NoTime == [given |-> FALSE, hour |-> 0, minute |-> 0]

Midnight == [hour |-> 0, minute |-> 0]

\* an all-day event that ends on the day it starts
EventBodySameDay(date, time, duration_minutes) ==
    IF time.given
    THEN [all_day |-> FALSE, start |-> AtTime(date, time),
          end |-> AddMinutes(AtTime(date, time), duration_minutes)]
    ELSE [all_day |-> TRUE, start |-> AtTime(date, Midnight), end |-> AtTime(date, Midnight)]

\* the event body of src/app/services/google_service.py:240-276; the start
\* and end of an all-day event are dates, held here as that day's midnight
EventBody(date, time, duration_minutes) ==
    LET event_date == AtTime(date, Midnight)
    IN  IF time.given
        THEN LET start_datetime == AtTime(event_date, time)
                 end_datetime == AddMinutes(start_datetime, duration_minutes)
             IN  [all_day |-> FALSE, start |-> start_datetime, end |-> end_datetime]
        ELSE LET end_date == AddDays(DateOf(event_date), 1)
             IN  [all_day |-> TRUE, start |-> AtTime(date, Midnight),
                  end |-> AtTime(end_date, Midnight)]

\* src/app/services/google_service.py:226-238
EventCategory(uid, category, title) ==
    IF uid # ""
    THEN (IF category = "" THEN detect_event_category(title \o <<" ">>) ELSE category)
    ELSE "work"

\* calendars.get(category, "primary")
EventCalendar(uid, calendars, category) ==
    IF uid # "" /\ category \in DOMAIN calendars THEN calendars[category] ELSE "primary"

\* the default of the duration_minutes parameter
DefaultDuration == 30

NoBody == [all_day |-> TRUE, start |-> AtTime([year |-> 2000, month |-> 1, day |-> 1], Midnight),
           end |-> AtTime([year |-> 2000, month |-> 1, day |-> 1], Midnight)]

\* src/app/services/google_service.py:207-297
create_calendar_event(c, insert_ok) ==
    LET category == EventCategory(c.user_id, c.category, c.title)
        calendar_id == EventCalendar(c.user_id, c.calendars, category)
    IN  IF insert_ok
        THEN [fn |-> c.fn, success |-> TRUE,
              body |-> EventBody(c.date, c.time, DefaultDuration),
              calendar_id |-> calendar_id, category |-> category,
              calendar_emoji |-> IF c.user_id = "" THEN "calendar"
                                 ELSE IF category = "work" THEN "brain" ELSE "house",
              calendar_name |-> IF category \in {"work", "personal"} THEN CalendarName(category)
                                ELSE "Primary"]
        ELSE [fn |-> c.fn, success |-> FALSE, body |-> NoBody, calendar_id |-> calendar_id,
              category |-> category, calendar_emoji |-> "", calendar_name |-> ""]

\* the years of the dates events are created on: a leap year, a common
\* year, a century that is no leap year and one that is
DateYears == {2000, 2024, 2025, 2100}

\* the first and the last days of every month, and a day in the middle
InputDates == {d \in ValidDates(DateYears) : d.day \in {1, 15} \cup 27..31}

InputTimes ==
    {NoTime, [given |-> TRUE, hour |-> 10, minute |-> 0],
     [given |-> TRUE, hour |-> 23, minute |-> 45]}

CreateCalls ==
    {[fn |-> "create_calendar_event", date |-> d, time |-> t, title |-> ti,
      category |-> cat, user_id |-> uc[1], calendars |-> uc[2]] :
        d \in InputDates, t \in InputTimes,
        ti \in {<<"s", "c", "h", "u'", "z", "k", "a">>,
                <<"n", "a", "r", "o", "z", "e", "n", "i", "n", "y">>},
        cat \in {"", "work", "personal"},
        uc \in {<<"", FallbackCalendars>>, <<"u1", ResolvedCalendars>>,
                <<"u1", FallbackCalendars>>}}

(***************************************************************************)
(* GoogleService.update_event                                              *)
(***************************************************************************)
\* new_date=None
NoDate == [given |-> FALSE, year |-> 0, month |-> 0, day |-> 0]

Given(d) == [given |-> TRUE, year |-> d.year, month |-> d.month, day |-> d.day]

\* an update that gives every moved event the default length
UpdatedBodyDefaultLength(event, new_date, new_time) ==
    IF event.all_day
    THEN event
    ELSE LET moved == AtTime(IF new_date.given THEN new_date ELSE event.start,
                             IF new_time.given THEN new_time ELSE event.start)
         IN  [event EXCEPT !.start = moved, !.end = AddMinutes(moved, DefaultDuration)]

\* the body update_event writes back: src/app/services/google_service.py:538-564
UpdatedBody(event, new_date, new_time) ==
    IF event.all_day
    THEN IF new_date.given
         THEN [event EXCEPT !.start = AtTime(new_date, Midnight),
                            !.end = AtTime(new_date, Midnight)]
         ELSE event
    ELSE LET current_dt == event.start
             dated == IF new_date.given THEN AtTime(new_date, current_dt) ELSE current_dt
             timed == IF new_time.given THEN AtTime(dated, new_time) ELSE dated
             duration == ToMinutes(event.end) - ToMinutes(event.start)
         IN  [event EXCEPT !.start = timed, !.end = AddMinutes(timed, duration)]

\* src/app/services/google_service.py:521-580
update_event(c, get_ok, update_ok) ==
    IF get_ok /\ update_ok
    THEN [fn |-> c.fn, success |-> TRUE, body |-> UpdatedBody(c.event, c.new_date, c.new_time)]
    ELSE [fn |-> c.fn, success |-> FALSE, body |-> c.event]

\* lengths of timed events in minutes: half an hour, one that runs past
\* midnight from a late start, and more than a day
InputDurations == {30, 90, 1500}

InputStarts ==
    {[year |-> 2024, month |-> 2, day |-> 28, hour |-> 23, minute |-> 30],
     [year |-> 2025, month |-> 6, day |-> 15, hour |-> 10, minute |-> 0],
     [year |-> 2025, month |-> 12, day |-> 31, hour |-> 22, minute |-> 15]}

StoredBodies ==
    {[all_day |-> FALSE, start |-> st, end |-> AddMinutes(st, n)] :
        st \in InputStarts, n \in InputDurations}
    \cup {EventBody(DateOf(st), NoTime, DefaultDuration) : st \in InputStarts}

NewDates ==
    {NoDate} \cup {Given(d) : d \in {[year |-> 2024, month |-> 2, day |-> 29],
                                     [year |-> 2025, month |-> 6, day |-> 20],
                                     [year |-> 2025, month |-> 12, day |-> 31],
                                     [year |-> 2100, month |-> 2, day |-> 28]}}

UpdateCalls ==
    {[fn |-> "update_event", event |-> e, new_date |-> nd, new_time |-> nt] :
        e \in StoredBodies, nd \in NewDates, nt \in InputTimes}

(***************************************************************************)
(* GoogleService.get_pending_tasks                                         *)
(***************************************************************************)
\* due_date.strftime('%d.%m.%Y'): ten characters, zero padded, the day
\* first; None for a task without due date
FormatDue(due) == IF due.given THEN <<due.day, due.month, due.year>> ELSE <<>>

\* `a < b` on two strings made by FormatDue or the literal '9999': fields
\* of fixed width compare as their numbers do, and '9' is above the first
\* digit of every day of a month
StrLess(a, b) ==
    IF a = <<>> THEN FALSE
    ELSE IF b = <<>> THEN TRUE
    ELSE \/ a[1] < b[1]
         \/ a[1] = b[1] /\ a[2] < b[2]
         \/ a[1] = b[1] /\ a[2] = b[2] /\ a[3] < b[3]

\* the sort key (not x['is_overdue'], x.get('due') or '9999') of line 451,
\* compared as Python compares tuples
KeyLess(x, y) ==
    \/ x.is_overdue /\ ~y.is_overdue
    \/ x.is_overdue = y.is_overdue /\ StrLess(x.due, y.due)

RECURSIVE InsertByKey(_, _)
InsertByKey(sorted, x) ==
    IF sorted = <<>> THEN <<x>>
    ELSE IF KeyLess(x, Head(sorted)) THEN <<x>> \o sorted
    ELSE <<Head(sorted)>> \o InsertByKey(Tail(sorted), x)

\* list.sort(key=...): stable
RECURSIVE SortByKey(_)
SortByKey(ts) ==
    IF ts = <<>> THEN <<>>
    ELSE InsertByKey(SortByKey(SubSeq(ts, 1, Len(ts) - 1)), ts[Len(ts)])

\* src/app/services/google_service.py:432-449
PendingTask(item, today) ==
    [id |-> item.id,
     due |-> FormatDue(item.due),
     due_date |-> item.due,
     is_overdue |-> item.due.given /\ ToOrdinal(item.due) < ToOrdinal(today)]

\* src/app/services/google_service.py:412-463
get_pending_tasks(c, list_ok) ==
    IF list_ok
    THEN LET listed == [i \in 1..Len(c.items) |-> PendingTask(c.items[i], c.today)]
             sorted == SortByKey(listed)
         IN  [fn |-> c.fn, success |-> TRUE, tasks |-> sorted,
              overdue_count |-> Len(SelectSeq(sorted, LAMBDA t : t.is_overdue))]
    ELSE [fn |-> c.fn, success |-> FALSE, tasks |-> <<>>, overdue_count |-> 0]

\* the most tasks in the task list
MaxTasks == 3

\* due dates around today, the 10th of June 2025: two in the past, two to
\* come, and none
InputDues ==
    {NoDate} \cup {Given(d) : d \in {[year |-> 2024, month |-> 12, day |-> 31],
                                     [year |-> 2025, month |-> 6, day |-> 1],
                                     [year |-> 2025, month |-> 6, day |-> 15],
                                     [year |-> 2025, month |-> 7, day |-> 1]}}

TaskCalls ==
    {[fn |-> "get_pending_tasks", today |-> [year |-> 2025, month |-> 6, day |-> 10],
      items |-> [i \in 1..Len(dues) |-> [id |-> i, due |-> dues[i]]]] :
        dues \in UNION {[1..k -> InputDues] : k \in 0..MaxTasks}}

(***************************************************************************)
(* The day summary: build_summary and the two places that send one.  A     *)
(* text is a sequence of characters; a character is <<c, 0>> for the       *)
(* character c of an input and <<name, k>> for the k-th character of the   *)
(* literal MSG.name.                                                       *)
(***************************************************************************)
\* len() of the literals of src/app/utils/messages.py:27-68 and of the
\* overdue prefix of src/app/utils/summary.py:27
LiteralLength ==
    [SUMMARY_HEADER |-> 19, SUMMARY_EVENTS |-> 15, SUMMARY_TASKS |-> 13,
     SUMMARY_VOICE_INTRO |-> 18, SUMMARY_VOICE_EVENTS |-> 9, SUMMARY_VOICE_TASKS |-> 6,
     SUMMARY_VOICE_NO_EVENTS |-> 31, SUMMARY_VOICE_NO_TASKS |-> 28,
     NO_EVENTS_TODAY |-> 26, NO_TASKS_TODAY |-> 24, ALL_DAY |-> 8, OVERDUE_PREFIX |-> 2]

Lit(name) == [k \in 1..LiteralLength[name] |-> <<name, k>>]

Str(s) == [k \in 1..Len(s) |-> <<s[k], 0>>]

\* sep.join(parts)
RECURSIVE JoinText(_, _)
JoinText(parts, sep) ==
    IF parts = <<>> THEN <<>>
    ELSE IF Len(parts) = 1 THEN parts[1]
    ELSE parts[1] \o sep \o JoinText(Tail(parts), sep)

\* s.split("T")[1] when "T" is in s: what stands between the first "T"
\* and the next one
AfterT(s) ==
    LET i == CHOOSE k \in 1..Len(s) : s[k] = "T" /\ \A j \in 1..(k - 1) : s[j] # "T"
        rest == SubSeq(s, i + 1, Len(s))
        ends == {k \in 1..Len(rest) : rest[k] = "T"}
        n == IF ends = {} THEN Len(rest)
             ELSE (CHOOSE k \in ends : \A j \in ends : k <= j) - 1
    IN  SubSeq(rest, 1, n)

\* src/app/utils/summary.py:16
time_str(start) ==
    IF InSeq(start, "T") THEN Str(Take(AfterT(start), 5)) ELSE Lit("ALL_DAY")

\* a summary that lists every task
SummaryTasksUncapped(tasks_) == tasks_

\* tasks[:5], src/app/utils/summary.py:26
SummaryTasks(tasks_) == Take(tasks_, 5)

\* src/app/utils/summary.py:17 and 28
EventPart(e) ==
    Str(<<" ", " ", e.emoji, " ">>) \o time_str(e.start) \o Str(<<" ", "-", " ">>) \o Str(e.title)

TaskPart(t) ==
    Str(<<" ", " ">>) \o (IF t.is_overdue THEN Lit("OVERDUE_PREFIX") ELSE Str(<<"box">>))
                      \o Str(<<" ">>) \o Str(t.title)

\* src/app/utils/summary.py:18 and 29
EventVoicePart(e) == time_str(e.start) \o Str(<<" ">>) \o Str(e.title)

TaskVoicePart(t) == Str(t.title)

\* src/app/utils/summary.py:5-34
build_summary(events, tasks_) ==
    LET listed == SummaryTasks(tasks_)
    IN  [msg_parts |->
            <<Lit("SUMMARY_HEADER")>>
            \o (IF events # <<>>
                THEN <<Lit("SUMMARY_EVENTS")>> \o [k \in 1..Len(events) |-> EventPart(events[k])]
                ELSE <<Lit("NO_EVENTS_TODAY")>>)
            \o (IF tasks_ # <<>>
                THEN <<Lit("SUMMARY_TASKS")>> \o [k \in 1..Len(listed) |-> TaskPart(listed[k])]
                ELSE <<Lit("NO_TASKS_TODAY")>>),
         voice_parts |->
            <<Lit("SUMMARY_VOICE_INTRO")>>
            \o (IF events # <<>>
                THEN <<Lit("SUMMARY_VOICE_EVENTS")>>
                     \o [k \in 1..Len(events) |-> EventVoicePart(events[k])]
                ELSE <<Lit("SUMMARY_VOICE_NO_EVENTS")>>)
            \o (IF tasks_ # <<>>
                THEN <<Lit("SUMMARY_VOICE_TASKS")>>
                     \o [k \in 1..Len(listed) |-> TaskVoicePart(listed[k])]
                ELSE <<Lit("SUMMARY_VOICE_NO_TASKS")>>)]

\* what ai_service.text_to_speech hands to the speech model,
\* src/app/services/ai_service.py:42
text_to_speech(text) == Take(text, 4000)

\* the SUMMARY branch of process_with_google from the results of get_events
\* and get_pending_tasks on, src/app/api/endpoints/telegram.py:409-438: the
\* text it posts and the text it has synthesized
summary_intent(events, tasks_) ==
    LET msg_parts == build_summary(events, tasks_).msg_parts
        voice_parts == build_summary(events, tasks_).voice_parts
    IN  [text |-> Take(JoinText(msg_parts, Str(<<"\n">>)), 4000),
         parse_mode |-> "Markdown",
         speech |-> text_to_speech(JoinText(voice_parts, Str(<<" ">>)))]

\* _send_user_morning_summary from the same results on,
\* src/app/services/notification_service.py:115-147: msg_parts and
\* voice_parts are built by the same statements, and send_telegram_message
\* (28-68) is given the joined msg_parts alone: it posts text[:4000] and
\* has `text` synthesized
send_user_morning_summary(events, tasks_) ==
    LET msg_parts == build_summary(events, tasks_).msg_parts
        text == JoinText(msg_parts, Str(<<"\n">>))
    IN  [text |-> Take(text, 4000),
         parse_mode |-> "Markdown",
         speech |-> text_to_speech(text)]

\* the most tasks a summary is asked for
MaxSummaryTasks == 7

\* today's events as get_events returns them: sorted by start, the all-day
\* event first
SummaryEvents ==
    << [emoji |-> "house", title |-> <<"D","a","n","a">>,
        start |-> <<"2","0","2","5","-","0","6","-","1","5">>],
       [emoji |-> "brain", title |-> <<"S","t","a","n","d","u","p">>,
        start |-> <<"2","0","2","5","-","0","6","-","1","5","T","0","9",":","0","0",":",
                    "0","0","+","0","2",":","0","0">>] >>

\* an event whose title is longer than a message may be
LongEvent ==
    [emoji |-> "brain", title |-> [k \in 1..4100 |-> "x"],
     start |-> <<"2","0","2","5","-","0","6","-","1","5","T","1","0",":","0","0",":",
                 "0","0","+","0","2",":","0","0">>]

\* the k-th pending task: "Task" and its number, every other one overdue
SummaryTask(k) ==
    [title |-> <<"T","a","s","k">> \o <<ToString(k)>>, is_overdue |-> k % 2 = 1]

SummaryInputs ==
    { [events |-> es, tasks |-> [k \in 1..n |-> SummaryTask(k)]] :
        es \in {Take(SummaryEvents, m) : m \in 0..Len(SummaryEvents)} \cup {<<LongEvent>>},
        n \in 0..MaxSummaryTasks }

SummaryCalls ==
    { [fn |-> f, events |-> i.events, tasks |-> i.tasks] :
        f \in {"build_summary", "summary_intent", "_send_user_morning_summary"},
        i \in SummaryInputs }

(***************************************************************************)
(* The functions of google_service and the summary builders applied on     *)
(* their own: one behaviour is one call.                                   *)
(***************************************************************************)
LibCalls ==
    ClassifyCalls \cup CreateCalls \cup UpdateCalls \cup TaskCalls \cup SummaryCalls

\* no request is running
NoRequest ==
    /\ WHITELISTED_USERS = <<"">>
    /\ pc = "none"
    /\ user_id = ""
    /\ kind = ""
    /\ authorized = FALSE
    /\ intent_data = NoIntent
    /\ response = "none"
    /\ router = "none"
    /\ store = [c \in CalIds |-> <<>>]
    /\ tasks = <<>>
    /\ cache = [u \in {} |-> ResolvedCalendars]
    /\ found = NoSearch
    /\ mv = NoMove
    /\ calls = <<>>
    /\ sent = <<>>
    /\ log = {}

\* no sweep is running
NoSweep ==
    /\ notified_events = {}
    /\ marks = <<>>
    /\ now = 0
    /\ sweep = [p \in {} |-> "idle"]
    /\ reminders = <<>>
    /\ digest = NoDigest

LibInit ==
    /\ NoRequest
    /\ NoSweep
    /\ call \in LibCalls
    /\ result = [fn |-> "none"]

Returns(r) ==
    /\ result.fn = "none"
    /\ result' = r
    /\ UNCHANGED <<webVars, notifVars, call>>

DetectEventCategory ==
    /\ call.fn = "detect_event_category"
    /\ Returns([fn |-> call.fn, category |-> detect_event_category(call.text)])

\* the event is inserted, or events().insert raises
CreateCalendarEvent ==
    /\ call.fn = "create_calendar_event"
    /\ \E insert_ok \in BOOLEAN : Returns(create_calendar_event(call, insert_ok))

\* events().get or events().update raises, or the event is written back
UpdateEvent ==
    /\ call.fn = "update_event"
    /\ \E get_ok \in BOOLEAN, update_ok \in BOOLEAN :
          Returns(update_event(call, get_ok, update_ok))

\* the tasks are listed, or the provider raises
GetPendingTasks ==
    /\ call.fn = "get_pending_tasks"
    /\ \E list_ok \in BOOLEAN : Returns(get_pending_tasks(call, list_ok))

BuildSummary ==
    /\ call.fn = "build_summary"
    /\ Returns([fn |-> call.fn,
                msg_parts |-> build_summary(call.events, call.tasks).msg_parts,
                voice_parts |-> build_summary(call.events, call.tasks).voice_parts])

\* the SUMMARY intent sends its summary; what a post raises changes
\* nothing in what is sent
SummaryIntent ==
    /\ call.fn = "summary_intent"
    /\ Returns([fn |-> call.fn,
                text |-> summary_intent(call.events, call.tasks).text,
                speech |-> summary_intent(call.events, call.tasks).speech])

\* the morning digest sends a user's summary
SendUserMorningSummary ==
    /\ call.fn = "_send_user_morning_summary"
    /\ Returns([fn |-> call.fn,
                text |-> send_user_morning_summary(call.events, call.tasks).text,
                speech |-> send_user_morning_summary(call.events, call.tasks).speech])

LibNext ==
    \/ DetectEventCategory
    \/ CreateCalendarEvent
    \/ UpdateEvent
    \/ GetPendingTasks
    \/ BuildSummary
    \/ SummaryIntent
    \/ SendUserMorningSummary

LibSpec == LibInit /\ [][LibNext]_vars

(***************************************************************************)
(* NotificationService: the reminder sweeps.  Time is in minutes.  Two     *)
(* sweeps can be running at once: the scheduler's job check_upcoming_events*)
(* and the sweep a POST /trigger?type=reminders starts.  A coroutine runs  *)
(* until it awaits the network, so a sweep takes a step only while the     *)
(* other one is idle or waits for its sendMessage post to return.          *)
(***************************************************************************)
Sweepers == {"job", "manual"}

\* the most sweeps one of them runs
MaxRuns == 2

\* the instants at which sweeps run: two of the 5-minute grid on one
\* morning and one more than 24 hours later
SweepTimes == <<0, 5, 1445>>

\* the rows of google_tokens with a telegram_chat_id, in the order of the
\* SELECT; user_id is the state parameter of the OAuth callback, any string
NotifiedUsers == << <<"a">>, <<"a", ":", "b">> >>

\* what the provider lists for a user: id and start, in minutes of the
\* model's time, -1 for an all-day event
ProviderEvents(uid) ==
    IF uid = <<"a">>
    THEN << [id |-> <<"b", ":", "c">>, start |-> 15],
            [id |-> <<"d">>, start |-> 20],
            [id |-> <<"h">>, start |-> -1],
            [id |-> <<"f">>, start |-> 1460] >>
    ELSE << [id |-> <<"c">>, start |-> 15],
            [id |-> <<"g">>, start |-> 1465] >>

DayOf(t) == t \div 1440

\* get_events(query_type="today") at time t; no events when the call fails
TodaysEvents(uid, t, ok) ==
    IF ok
    THEN SelectSeq(ProviderEvents(uid),
                   LAMBDA e : e.start = -1 \/ DayOf(e.start) = DayOf(t))
    ELSE <<>>

\* f"{user_id}:{event_id}", src/app/services/notification_service.py:205, 210
NotifiedKey(uid, event_id) == uid \o <<":">> \o event_id

\* src/app/services/notification_service.py:203-206
already_notified(notified, uid, event_id) == NotifiedKey(uid, event_id) \in notified

\* src/app/services/notification_service.py:208-211
mark_notified(notified, uid, event_id) == notified \cup {NotifiedKey(uid, event_id)}

\* src/app/services/notification_service.py:180-194: a timed event that
\* starts in 10 to 20 minutes
InWindow(e, t) == e.start # -1 /\ 10 <= e.start - t /\ e.start - t <= 20

\* seen: the users the running (or last) sweep has called
\* _check_user_reminders for, in order; failed: those for whom it has
\* raised in the running sweep
IdleSweep ==
    [pc |-> "idle", runs |-> 0, u |-> 0, k |-> 0, events |-> <<>>, at |-> 0,
     seen |-> <<>>, failed |-> {}]

NotifInit ==
    /\ NoRequest
    /\ call = [fn |-> "none"]
    /\ result = [fn |-> "none"]
    /\ notified_events = {}
    /\ marks = <<>>
    /\ now = 0
    /\ sweep = [p \in Sweepers |-> IdleSweep]
    /\ reminders = <<>>
    /\ digest = NoDigest

\* no other coroutine is in the middle of a run between two awaits
MayRun(p) == \A q \in Sweepers \ {p} : sweep[q].pc \in {"idle", "send"}

\* the sweep goes on from user u, event k, up to its next await: it skips
\* what is all-day, outside the window or already notified, and stops at
\* the first event to remind of (pc "send") or at the end (pc "idle");
\* k = 0 is the call of get_events for user u, which fetch[u] lets succeed
RECURSIVE Advance(_, _, _, _, _, _)
Advance(s, u, k, events, fetch, notified) ==
    IF u > Len(NotifiedUsers)
    THEN [s EXCEPT !.pc = "idle", !.u = 0, !.k = 0, !.events = <<>>, !.at = 0,
                   !.failed = {}]
    ELSE IF k = 0
    THEN Advance([s EXCEPT !.at = now, !.seen = Append(@, u)], u, 1,
                 TodaysEvents(NotifiedUsers[u], now, fetch[u]), fetch, notified)
    ELSE IF k > Len(events) THEN Advance(s, u + 1, 0, <<>>, fetch, notified)
    ELSE IF InWindow(events[k], s.at) /\ ~already_notified(notified, NotifiedUsers[u], events[k].id)
    THEN [s EXCEPT !.pc = "send", !.u = u, !.k = k, !.events = events]
    ELSE Advance(s, u, k + 1, events, fetch, notified)

Fetches == [1..Len(NotifiedUsers) -> BOOLEAN]

\* a sweep that gives up at the first user whose processing raises
UserFailedAborting(s, fetch, notified) ==
    [s EXCEPT !.failed = {}, !.pc = "idle", !.u = 0, !.k = 0, !.events = <<>>, !.at = 0]

\* _check_user_reminders raised for user s.u: the except of
\* src/app/services/notification_service.py:157-160 prints and the loop
\* goes on with the next user
UserFailed(s, fetch, notified) ==
    Advance([s EXCEPT !.failed = @ \cup {s.u}], s.u + 1, 0, <<>>, fetch, notified)

\* check_and_send_reminders, src/app/services/notification_service.py:151-160,
\* up to its first await; get_authorized_users may raise
StartSweep(p) ==
    /\ sweep[p].pc = "idle"
    /\ sweep[p].runs < MaxRuns
    /\ MayRun(p)
    /\ \E users_ok \in BOOLEAN, fetch \in Fetches :
          sweep' = [sweep EXCEPT ![p] =
                       IF users_ok
                       THEN Advance([@ EXCEPT !.runs = @ + 1, !.seen = <<>>, !.failed = {}],
                                    1, 0, <<>>, fetch, notified_events)
                       ELSE [@ EXCEPT !.runs = @ + 1, !.seen = <<>>, !.failed = {}]]
    /\ UNCHANGED <<webVars, libVars, notified_events, marks, now, reminders, digest>>

\* the scheduler's job: src/app/services/scheduler_service.py:37-49
CheckUpcomingEvents ==
    /\ sweep["job"].pc = "idle"
    /\ StartSweep("job")

\* POST /trigger?type=reminders: src/app/api/endpoints/cron.py:10-29
TriggerNotification ==
    /\ sweep["manual"].pc = "idle"
    /\ StartSweep("manual")

\* the sendMessage post of _send_reminder returns and the sweep runs on to
\* its next await: src/app/services/notification_service.py:196-198,
\* 213-229; when the post raises, the rest of the user's events is left
\* out (except of lines 157-160)
SendReminder ==
    \E p \in Sweepers :
       /\ sweep[p].pc = "send"
       /\ MayRun(p)
       /\ \E post_ok \in BOOLEAN, fetch \in Fetches :
             LET s == sweep[p]
                 uid == NotifiedUsers[s.u]
                 event == s.events[s.k]
                 marked == mark_notified(notified_events, uid, event.id)
             IN  IF post_ok
                 THEN /\ reminders' = Append(reminders,
                                             [user_id |-> uid, event_id |-> event.id, by |-> p])
                      /\ notified_events' = marked
                      /\ marks' = Append(marks,
                                         [user_id |-> uid, event_id |-> event.id, at |-> now,
                                          size_before |-> Cardinality(notified_events)])
                      /\ sweep' = [sweep EXCEPT ![p] =
                                      Advance(s, s.u, s.k + 1, s.events, fetch, marked)]
                 ELSE /\ sweep' = [sweep EXCEPT ![p] = UserFailed(s, fetch, notified_events)]
                      /\ UNCHANGED <<reminders, notified_events, marks>>
       /\ UNCHANGED <<webVars, libVars, now, digest>>

\* time passes to the next instant at which sweeps run; a pending post has
\* returned or timed out by then (httpx gives up after seconds)
Tick ==
    /\ \A p \in Sweepers : sweep[p].pc # "send"
    /\ \E i \in 1..(Len(SweepTimes) - 1) :
          /\ SweepTimes[i] = now
          /\ now' = SweepTimes[i + 1]
    /\ UNCHANGED <<webVars, libVars, notified_events, marks, sweep, reminders, digest>>

\* the loop of send_morning_summaries over the users from index u on,
\* src/app/services/notification_service.py:90-94: _send_user_morning_summary
\* is called for each user in turn, and what it raises is printed
RECURSIVE MorningLoop(_, _)
MorningLoop(u, raises) ==
    IF u > Len(NotifiedUsers) THEN <<>>
    ELSE <<[u |-> u, raised |-> raises[u]]>> \o MorningLoop(u + 1, raises)

\* the scheduler's job at MORNING_HOUR (the model's day starts at that hour,
\* and the job runs once a day), src/app/services/scheduler_service.py:22-34,
\* and send_morning_summaries, src/app/services/notification_service.py:84-94;
\* get_events and get_pending_tasks return their errors, so what raises
\* for a user is the sendMessage post of send_telegram_message
SendMorningSummary ==
    /\ now = SweepTimes[1]
    /\ ~digest.ran
    /\ \E users_ok \in BOOLEAN, raises \in Fetches :
          digest' = [ran |-> TRUE, listed |-> users_ok,
                     processed |-> IF users_ok THEN MorningLoop(1, raises) ELSE <<>>]
    /\ UNCHANGED <<webVars, libVars, notified_events, marks, now, sweep, reminders>>

NotifNext ==
    \/ CheckUpcomingEvents
    \/ TriggerNotification
    \/ SendReminder
    \/ SendMorningSummary
    \/ Tick

NotifSpec == NotifInit /\ [][NotifNext]_vars

(***************************************************************************)
(* Properties                                                              *)
(***************************************************************************)
Called(op) == \E i \in 1..Len(calls) : calls[i].op = op

CallsOf(ops) == SelectSeq(calls, LAMBDA c : c.op \in ops)

SentTpl(tpl) == \E i \in 1..Len(sent) : sent[i].tpl = tpl

\* the generic acknowledgements of telegram_webhook, sent before the router runs
Acknowledgements == {"TEXT_SAVED", "VOICE_TRANSCRIBED"}

\* the messages process_with_google sent
RouterSent == SelectSeq(sent, LAMBDA m : m.tpl \notin Acknowledgements)

\* the calls that act on a matched event
ActionOps ==
    {"move_event_to_calendar", "update_event", "delete_event",
     "events.get", "events.insert", "events.update", "events.delete"}

\* every call on the calendar or task provider
ProviderOps ==
    ActionOps \cup {"calendarList.list", "calendars.insert", "events.list", "tasks.list",
                    "tasks.insert",
                    "tasks.get", "tasks.update"}

TokensFound == \E i \in 1..Len(calls) : calls[i].op = "db.select_tokens" /\ calls[i].arg = "row"

MoveStarted == mv.event_id # 0

\* the target calendar holds an event with the content of the moved one
CopyInTarget ==
    /\ mv.target_id \in CalIds
    /\ \E k \in 1..Len(store[mv.target_id]) :
          LET e == store[mv.target_id][k]
          IN  /\ e.id # mv.event_id
              /\ e.title = found.events[1].title
              /\ e.start = found.events[1].start

StillInSource == StoredIn(mv.source, mv.event_id) # NoEvent

\* C1: in every state of a move, crashed or failed ones included, a delete
\* of the source was issued only after an insert into the target calendar
\* succeeded, and the event is in the source calendar or its copy is in the
\* target calendar: never in neither.
C1_InsertBeforeDelete ==
    MoveStarted =>
        /\ \A i \in 1..Len(calls) :
              calls[i].op = "events.delete" =>
                 \E j \in 1..(i - 1) :
                    calls[j] = Call("events.insert", mv.target_id, mv.event_id, TRUE)
        /\ StillInSource \/ CopyInTarget

\* the process died after the insert and before the delete: a duplicate
C1_Witness ==
    /\ pc = "crashed"
    /\ MoveStarted
    /\ StillInSource
    /\ CopyInTarget

\* C2: a move whose source calendar is the calendar resolved for the target
\* category returns the "already there" failure, raises nothing, and makes
\* no get, insert or delete call on events.
C2_SameCalendarFails ==
    (MoveStarted /\ mv.target_id # "" /\ mv.source = mv.target_id) =>
        /\ mv.result = "failed"
        /\ mv.error = "already in calendar"
        /\ router # "raised"
        /\ CallsOf({"events.get", "events.insert", "events.delete"}) = <<>>

C2_Witness ==
    /\ MoveStarted
    /\ mv.source = mv.target_id
    /\ router = "returned"
    /\ Len(sent) = 2
    /\ sent[2].tpl = "FAILURE"
    /\ sent[2].label = "already in calendar"

SingleMatch == found.success /\ Len(found.events) = 1

MoveRequested ==
    /\ intent_data.intent = "UPDATE_EVENT"
    /\ Truthy(intent_data.target_event)
    /\ intent_data.target_calendar # ""
    /\ SingleMatch

\* C3: an UPDATE_EVENT with target_event and target_calendar whose search
\* returns exactly one event never calls update_event; when the router has
\* returned it has called move_event_to_calendar once, with the id of that
\* event, the event's own calendar as source and target_calendar as target,
\* and after a successful move it has sent one message with the event's
\* title and the name of the target calendar.
C3_SingleMatchIsMoved ==
    MoveRequested =>
        /\ ~Called("update_event")
        /\ router = "returned" =>
              LET event == found.events[1]
              IN  /\ CallsOf({"move_event_to_calendar"})
                        = <<Call("move_event_to_calendar", event.calendar_id, event.id, TRUE)>>
                  /\ mv.event_id = event.id
                  /\ mv.source = event.calendar_id
                  /\ mv.target_type = intent_data.target_calendar
                  /\ mv.result = "success" =>
                        /\ Len(RouterSent) = 1
                        /\ RouterSent[1].tpl = "EVENT_MOVED_CALENDAR"
                        /\ RouterSent[1].title = event.title
                        /\ RouterSent[1].label = CalendarName(intent_data.target_calendar)

C3_Witness ==
    /\ MoveRequested
    /\ router = "returned"
    /\ mv.result = "success"
    /\ mv.source = "P"
    /\ intent_data.target_calendar = "work"
    /\ RouterSent[1].delivered

SearchIntent ==
    /\ intent_data.intent \in {"UPDATE_EVENT", "DELETE_EVENT"}
    /\ Truthy(intent_data.target_event)

Min(a, b) == IF a < b THEN a ELSE b

\* C4: when the search of an UPDATE_EVENT or DELETE_EVENT returns n >= 2
\* events, no call acts on an event, and the router returns after sending
\* one clarification message that lists the first min(n, 5) of them.
C4_ManyMatchesClarify ==
    (SearchIntent /\ found.success /\ Len(found.events) >= 2) =>
        /\ CallsOf(ActionOps) = <<>>
        /\ router = "returned" =>
              /\ Len(RouterSent) = 1
              /\ RouterSent[1].tpl = (IF intent_data.intent = "UPDATE_EVENT"
                                      THEN "MULTIPLE_EVENTS_FOUND"
                                      ELSE "MULTIPLE_EVENTS_DELETE")
              /\ Len(RouterSent[1].lines) = Min(Len(found.events), 5)
              /\ \A k \in 1..Len(RouterSent[1].lines) :
                    RouterSent[1].lines[k] = Line(found.events[k].title, found.events[k].start)

C4_Witness ==
    /\ SearchIntent
    /\ found.success
    /\ Len(found.events) = 7
    /\ router = "returned"
    /\ Len(RouterSent) = 1
    /\ Len(RouterSent[1].lines) = 5

\* C5: when the search of an UPDATE_EVENT or DELETE_EVENT succeeds with no
\* event, the router sends the "not found" message naming the query and no
\* call acts on an event; and the "not found" message is sent for such a
\* search: one that succeeded with an empty result.
C5_NotFoundMeansEmptyResult ==
    /\ (SearchIntent /\ found.success /\ found.events = <<>>) =>
          /\ CallsOf(ActionOps) = <<>>
          /\ router = "returned" =>
                /\ Len(RouterSent) = 1
                /\ RouterSent[1].tpl = "EVENT_NOT_FOUND"
                /\ RouterSent[1].title = intent_data.target_event
    /\ SentTpl("EVENT_NOT_FOUND") => (found.success /\ found.events = <<>>)

SilentSkip ==
    \/ intent_data.intent = "EVENT" /\ intent_data.date = ""
    \/ /\ intent_data.intent \in {"UPDATE_EVENT", "DELETE_EVENT", "COMPLETE_TASK"}
       /\ ~Truthy(intent_data.target_event)

\* C6: an EVENT without date, and an UPDATE_EVENT, DELETE_EVENT or
\* COMPLETE_TASK without target_event, cause no provider call and no
\* message of the router.
C6_SilentSkip ==
    SilentSkip =>
        /\ CallsOf(ProviderOps) = <<>>
        /\ RouterSent = <<>>

C6_Witness ==
    /\ SilentSkip
    /\ intent_data.intent = "EVENT"
    /\ TokensFound
    /\ router = "returned"

\* the pending tasks whose normalized title contains the normalized query
MatchingTasks(query) ==
    SelectSeq(tasks, LAMBDA t : Contains(normalize_text(t.title), normalize_text(query)))

\* C7: for a COMPLETE_TASK with target_event the router lists the pending
\* tasks; with exactly one task matching it completes that task once and
\* sends a success message, with several it sends a clarification of at
\* most 5 and completes nothing, with none it sends "not found" and
\* completes nothing.
C7_CompleteTaskRouted ==
    (/\ intent_data.intent = "COMPLETE_TASK"
     /\ Truthy(intent_data.target_event)
     /\ TokensFound
     /\ router = "returned"
     /\ "Error processing with Google" \notin log) =>
        LET matching == MatchingTasks(intent_data.target_event)
        IN  /\ Called("tasks.list")
            /\ Len(matching) = 1 =>
                  /\ Len(CallsOf({"complete_task"})) = 1
                  /\ CallsOf({"complete_task"})[1].id = matching[1].id
                  /\ SentTpl("TASK_COMPLETED")
            /\ Len(matching) >= 2 =>
                  /\ ~Called("complete_task")
                  /\ Len(RouterSent) = 1
                  /\ Len(RouterSent[1].lines) = Min(Len(matching), 5)
            /\ Len(matching) = 0 =>
                  /\ ~Called("complete_task")
                  /\ SentTpl("TASK_NOT_FOUND")

NotePosts == CallsOf({"notes.post"})

\* C8: the answer of the note storage selects the message of a NOTE: 200
\* the success message, another status the "saved locally" message, an
\* exception the third fallback message; nothing else is sent when the
\* posts go through, and the success message is sent for a 200 only.
C8_NoteOutcomes ==
    /\ SentTpl("NOTE_SAVED") => (NotePosts # <<>> /\ NotePosts[1].arg = "200")
    /\ (intent_data.intent = "NOTE" /\ router = "returned" /\ NotePosts # <<>>) =>
          LET status == NotePosts[1].arg
          IN  /\ RouterSent # <<>>
              /\ RouterSent[1].tpl =
                    (CASE status = "200" -> "NOTE_SAVED"
                       [] status = "raise" -> "NOTE_FALLBACK"
                       [] OTHER -> "NOTE_SAVED_LOCAL")
              /\ RouterSent[1].delivered => Len(RouterSent) = 1

C8_Witness ==
    /\ intent_data.intent = "NOTE"
    /\ router = "returned"
    /\ NotePosts # <<>>
    /\ NotePosts[1].arg = "500"
    /\ Len(RouterSent) = 1
    /\ RouterSent[1].tpl = "NOTE_SAVED_LOCAL"
    /\ RouterSent[1].delivered

\* C9: whatever fails in a collaborator, process_with_google returns
\* normally: nothing raises past it into the webhook handler.
C9_RouterNeverRaises == router # "raised"

\* C10: once the secret-token check and the whitelist check have passed,
\* the response of the webhook handler is {ok: true}.
C10_AlwaysAcknowledged == (authorized /\ pc = "done") => response = "ok"

\* C11: no message sent to the user carries the text of an exception: every
\* failure message is one of the fixed texts, also after a provider call of
\* a move, an update or a delete raised.
C11_NoRawExceptionText ==
    \A i \in 1..Len(sent) : sent[i].label # "exception text"

\* the action on the single matched event returned success = False with an
\* error cause
ActionFailed ==
    \/ mv.result = "failed"
    \/ \E i \in 1..Len(calls) :
          calls[i].op \in {"events.get", "events.update", "events.delete"} /\ ~calls[i].ok

\* C12: when the move, update or delete of the single matched event returns
\* a failure result with an error cause, the router has sent exactly one
\* failure message when it returns, and that message is unstyled.
C12_ReportedFailure ==
    (SearchIntent /\ SingleMatch /\ ActionFailed /\ router = "returned") =>
        /\ Len(RouterSent) = 1
        /\ RouterSent[1].tpl = "FAILURE"
        /\ ~RouterSent[1].styled

\* the letter a code point stands for when accents and case are ignored
Fold(c) == ToLower(BaseLetter(c))

\* the keyword occurs in the text, accents and case ignored: at some place
\* the letters of the text, its combining marks left out, are the letters of
\* the keyword
Occurs(keyword, text) ==
    LET letters == SelectSeq(text, LAMBDA c : c \notin CombiningMarks)
        wanted == SelectSeq(keyword, LAMBDA c : c \notin CombiningMarks)
    IN  \E i \in 0..(Len(letters) - Len(wanted)) :
           \A j \in 1..Len(wanted) : Fold(letters[i + j]) = Fold(wanted[j])

KeywordsFound(keywords, text) ==
    Cardinality({k \in 1..Len(keywords) : Occurs(keywords[k], text)})

\* C13: the classifier returns "personal" exactly when more personal
\* keywords than work keywords occur in the text, accents and case
\* ignored; a tie, 0 to 0 included, returns "work".
C13_PersonalIffStrictlyMore ==
    result.fn = "detect_event_category" =>
        /\ result.category \in {"work", "personal"}
        /\ result.category = "personal" <=>
              KeywordsFound(PERSONAL_KEYWORDS, call.text)
                 > KeywordsFound(WORK_KEYWORDS, call.text)

\* a tie of two keywords against two, spelled with and without accents
C13_Witness ==
    /\ result.fn = "detect_event_category"
    /\ KeywordsFound(PERSONAL_KEYWORDS, call.text) = 2
    /\ KeywordsFound(WORK_KEYWORDS, call.text) = 2
    /\ result.category = "work"
    /\ \E i \in 1..Len(call.text) : call.text[i] = "'"

\* the last day of a month, from the calendar: thirty days have September,
\* April, June and November; February has 28, and 29 in a leap year
LastDay(y, m) ==
    IF m \in {9, 4, 6, 11} THEN 30
    ELSE IF m # 2 THEN 31
    ELSE IF y % 400 = 0 \/ (y % 4 = 0 /\ y % 100 # 0) THEN 29 ELSE 28

\* the day after d
DayAfter(d) ==
    IF d.day < LastDay(d.year, d.month) THEN [d EXCEPT !.day = @ + 1]
    ELSE IF d.month < 12 THEN [d EXCEPT !.month = @ + 1, !.day = 1]
    ELSE [year |-> d.year + 1, month |-> 1, day |-> 1]

\* C14: an event created with a date and no time is an all-day event that
\* starts on the given date and ends on the day after it, at the end of a
\* month and of a year too.
C14_AllDayEndsNextDay ==
    (/\ result.fn = "create_calendar_event"
     /\ result.success
     /\ ~call.time.given) =>
        /\ result.body.all_day
        /\ DateOf(result.body.start) = call.date
        /\ DateOf(result.body.end) = DayAfter(call.date)

\* an all-day event on the last day of a leap February and on New Year's Eve
C14_Witness ==
    /\ result.fn = "create_calendar_event"
    /\ result.success
    /\ ~call.time.given
    /\ \/ call.date = [year |-> 2024, month |-> 2, day |-> 29]
          /\ DateOf(result.body.end) = [year |-> 2024, month |-> 3, day |-> 1]
       \/ call.date = [year |-> 2025, month |-> 12, day |-> 31]
          /\ DateOf(result.body.end) = [year |-> 2026, month |-> 1, day |-> 1]

\* the days from date a to the later date b, counted one day at a time
RECURSIVE DaysFromTo(_, _)
DaysFromTo(a, b) == IF a = b THEN 0 ELSE 1 + DaysFromTo(DayAfter(a), b)

\* the length of an event in minutes
Length(event) ==
    DaysFromTo(DateOf(event.start), DateOf(event.end)) * 24 * 60
       + (event.end.hour * 60 + event.end.minute)
       - (event.start.hour * 60 + event.start.minute)

\* C15: a successful update of a timed event keeps its length: the new
\* start is the old start with the date replaced by new_date when given and
\* hour and minute replaced by new_time when given, and the new end is as
\* far from the new start as the old end was from the old start.
C15_DurationPreserved ==
    (/\ result.fn = "update_event"
     /\ result.success
     /\ ~call.event.all_day) =>
        /\ ~result.body.all_day
        /\ DateOf(result.body.start) =
              (IF call.new_date.given THEN DateOf(call.new_date) ELSE DateOf(call.event.start))
        /\ result.body.start.hour =
              (IF call.new_time.given THEN call.new_time.hour ELSE call.event.start.hour)
        /\ result.body.start.minute =
              (IF call.new_time.given THEN call.new_time.minute ELSE call.event.start.minute)
        /\ Length(result.body) = Length(call.event)

\* an event of more than a day moved to the last evening of a year
C15_Witness ==
    /\ result.fn = "update_event"
    /\ result.success
    /\ ~call.event.all_day
    /\ Length(call.event) = 1500
    /\ call.new_date = Given([year |-> 2025, month |-> 12, day |-> 31])
    /\ call.new_time.given
    /\ call.new_time.hour = 23
    /\ DateOf(result.body.end) = [year |-> 2026, month |-> 1, day |-> 2]

\* C16: the tasks get_pending_tasks returns are ordered: every overdue task
\* before every task that is not overdue and, among the overdue and among
\* the others, by due date ascending in calendar order, a task without due
\* date after those with one.
C16_PendingTasksSorted ==
    (result.fn = "get_pending_tasks" /\ result.success) =>
        \A i \in 1..Len(result.tasks) : \A j \in (i + 1)..Len(result.tasks) :
            LET a == result.tasks[i]
                b == result.tasks[j]
            IN  /\ a.is_overdue \/ ~b.is_overdue
                /\ a.is_overdue = b.is_overdue =>
                      /\ a.due_date.given \/ ~b.due_date.given
                      /\ (a.due_date.given /\ b.due_date.given) =>
                            ToOrdinal(a.due_date) <= ToOrdinal(b.due_date)

UserIds == {NotifiedUsers[u] : u \in 1..Len(NotifiedUsers)}

EventIds ==
    UNION {{ProviderEvents(uid)[k].id : k \in 1..Len(ProviderEvents(uid))} : uid \in UserIds}

\* _mark_notified was called for the pair
Marked(uid, event_id) ==
    \E i \in 1..Len(marks) : marks[i].user_id = uid /\ marks[i].event_id = event_id

\* C17: a pair that was marked is already notified, and a pair that was
\* never marked is not, whatever strings the two identifiers are.
C17_NotifiedIffMarked ==
    \A uid \in UserIds, event_id \in EventIds :
        already_notified(notified_events, uid, event_id) <=> Marked(uid, event_id)

\* the number of entries the store may hold
N_MAX == 2

\* when the key was last marked before or at mark i
LastMarkedAt(key) ==
    LET is == {i \in 1..Len(marks) : NotifiedKey(marks[i].user_id, marks[i].event_id) = key}
    IN  marks[CHOOSE i \in is : \A j \in is : j <= i].at

MarkedKeys == {NotifiedKey(marks[i].user_id, marks[i].event_id) : i \in 1..Len(marks)}

\* C18: after a mark made while the store held more than N_MAX entries,
\* no entry last marked more than 24 hours before it is left, and every
\* entry marked within the 24 hours before it, the new one included, is
\* still there.
C18_EvictionOnOverflow ==
    (Len(marks) > 0 /\ marks[Len(marks)].size_before > N_MAX) =>
        \A key \in MarkedKeys :
            LET age == marks[Len(marks)].at - LastMarkedAt(key)
            IN  /\ age > 24 * 60 => key \notin notified_events
                /\ age < 24 * 60 => key \in notified_events

\* C19: the store never holds more than N_MAX entries.
C19_StoreBounded == Cardinality(notified_events) <= N_MAX

\* C20: no two reminder messages are sent for the same user and event.
C20_OneReminderPerPair ==
    \A i \in 1..Len(reminders) : \A j \in (i + 1)..Len(reminders) :
        ~(/\ reminders[i].user_id = reminders[j].user_id
          /\ reminders[i].event_id = reminders[j].event_id)

\* the users of the list up to index n, in the order of the list
UpTo(n) == [k \in 1..n |-> k]

\* C21: a sweep goes through the users in the order of the list, and a
\* failure while it processes one user does not end it: a reminder sweep
\* that waits for a post has been through every user up to the current one,
\* a reminder sweep that is over and a morning digest sweep that got the
\* list have been through every user of the list, whoever failed
C21_FailureDoesNotAbortSweep ==
    /\ \A p \in Sweepers :
          /\ sweep[p].pc = "send" => sweep[p].seen = UpTo(sweep[p].u)
          /\ sweep[p].pc = "idle" /\ sweep[p].seen # <<>> =>
                sweep[p].seen = UpTo(Len(NotifiedUsers))
    /\ digest.listed =>
          /\ [k \in 1..Len(digest.processed) |-> digest.processed[k].u] = UpTo(Len(NotifiedUsers))

\* a reminder sweep in which the first user failed is at the second user,
\* and the morning digest sweep is over and its first user failed
C21_Witness ==
    /\ \E p \in Sweepers :
          /\ sweep[p].pc = "send"
          /\ sweep[p].u = 2
          /\ 1 \in sweep[p].failed
    /\ digest.listed
    /\ digest.processed[1].raised
    /\ Len(digest.processed) = Len(NotifiedUsers)
\* the calls a step adds
NewCalls == SubSeq(calls', Len(calls) + 1, Len(calls'))

RegistryOps == {"calendarList.list", "calendars.insert"}

\* C22: the cache of calendar ids lasts: a user's entry never changes or
\* disappears; the cache changes only in a step in which a resolve listed
\* the provider's calendars successfully; and a step of a request whose
\* user has an entry makes no list or create call and reads events only
\* from the calendars of that entry
C22_CachePerLifetime ==
    [][ /\ \A u \in DOMAIN cache : u \in DOMAIN cache' /\ cache'[u] = cache[u]
        /\ cache' # cache =>
              \E i \in 1..Len(NewCalls) :
                 NewCalls[i].op = "calendarList.list" /\ NewCalls[i].ok
        /\ user_id \in DOMAIN cache =>
              \A i \in 1..Len(NewCalls) :
                 /\ NewCalls[i].op \notin RegistryOps
                 /\ NewCalls[i].op = "events.list" =>
                       NewCalls[i].arg \in {cache[user_id][t] : t \in DOMAIN cache[user_id]}
      ]_vars

\* a request resolved twice: the search of an UPDATE_EVENT listed the
\* provider's calendars, successfully, and the move that followed it
\* resolved from the cache
C22_Witness ==
    /\ user_id \in DOMAIN cache
    /\ Called("move_event_to_calendar")
    /\ Len(CallsOf({"calendarList.list"})) = 1
    /\ CallsOf({"calendarList.list"})[1].ok
\* the parts that follow the part `header`, none when it is not there
PartsAfter(parts, header) ==
    IF \E i \in 1..Len(parts) : parts[i] = header
    THEN SubSeq(parts, 1 + (CHOOSE i \in 1..Len(parts) : parts[i] = header), Len(parts))
    ELSE <<>>

TaskPartsShown == PartsAfter(result.msg_parts, Lit("SUMMARY_TASKS"))

TaskPartsSpoken == PartsAfter(result.voice_parts, Lit("SUMMARY_VOICE_TASKS"))

\* C23: build_summary lists the first min(n, 5) of n tasks, in the order
\* given, in the display parts and in the speech parts, and no part of
\* either names a task from the sixth on
C23_FirstFiveTasks ==
    result.fn = "build_summary" =>
        LET given == call.tasks
            m == Min(Len(given), 5)
        IN  /\ TaskPartsShown = [k \in 1..m |-> TaskPart(given[k])]
            /\ TaskPartsSpoken = [k \in 1..m |-> TaskVoicePart(given[k])]
            /\ \A k \in 6..Len(given) :
                  /\ \A i \in 1..Len(result.msg_parts) :
                        ~Contains(result.msg_parts[i], Str(given[k].title))
                  /\ \A i \in 1..Len(result.voice_parts) :
                        ~Contains(result.voice_parts[i], Str(given[k].title))

\* a summary of more than five tasks has been built, with five task lines
C23_Witness ==
    /\ result.fn = "build_summary"
    /\ Len(call.tasks) > 5
    /\ Len(TaskPartsShown) = 5
    /\ Len(TaskPartsSpoken) = 5
\* C24: the SUMMARY intent and the morning digest both send what
\* build_summary builds from the same events and tasks: the text they post
\* is its joined display parts (cut at the length a message may have), and
\* the text they have synthesized is its joined speech parts
C24_BothSendBuiltSummary ==
    result.fn \in {"summary_intent", "_send_user_morning_summary"} =>
        LET built == build_summary(call.events, call.tasks)
        IN  /\ result.text = Take(JoinText(built.msg_parts, Str(<<"\n">>)), 4000)
            /\ result.speech = text_to_speech(JoinText(built.voice_parts, Str(<<" ">>)))
\* C25: no text posted to sendMessage is longer than 4000 characters (of
\* the posts of a request, those whose text is a template around one value)
C25_AtMost4000Characters ==
    \A i \in 1..Len(sent) :
        sent[i].tpl \in DOMAIN FixedLength => TextLength(sent[i]) <= 4000
\* C26: once a capture has been committed or its commit has raised, its
\* session has been closed exactly once, and after a commit that raised
\* the session has been rolled back and the webhook has not failed
C26_SessionAlwaysReleased ==
    Called("db.commit") =>
        /\ Len(CallsOf({"db.close"})) = 1
        /\ ~CallsOf({"db.commit"})[1].ok =>
              /\ Called("db.rollback")
              /\ response # "500"
\* the handler has read the sender of an update whose secret token it accepted
SenderRead == pc # "idle" /\ response # "401" /\ user_id # ""

\* C27: a sender is authorized exactly when the whitelist is unset or
\* empty or names the sender, and a request of a sender who is not is
\* answered ok without a call on the classifier, the database or the
\* provider and without a message
C27_OnlyWhitelistedUsers ==
    SenderRead =>
        /\ authorized <=>
              \/ WHITELISTED_USERS \in {<<>>, <<"">>}
              \/ InSeq(WHITELISTED_USERS, user_id)
        /\ ~authorized =>
              /\ pc = "done"
              /\ response = "ok"
              /\ calls = <<>>
              /\ sent = <<>>
              /\ intent_data = NoIntent

\* a sender the whitelist does not name has been turned away
C27_Witness ==
    /\ SenderRead
    /\ WHITELISTED_USERS = <<"u2">>
    /\ user_id = "u1"
    /\ ~authorized
    /\ response = "ok"
DateBefore(a, b) ==
    \/ a.year < b.year
    \/ a.year = b.year /\ a.month < b.month
    \/ a.year = b.year /\ a.month = b.month /\ a.day < b.day

\* C28: the all-day event update_event writes back after a change of its
\* date starts on the new date and ends on a later day, the day after for
\* an event of one day
C28_AllDayUpdateEndsLater ==
    (/\ result.fn = "update_event"
     /\ result.success
     /\ call.event.all_day
     /\ call.new_date.given) =>
        /\ DateOf(result.body.start) = DateOf(call.new_date)
        /\ DateBefore(DateOf(result.body.start), DateOf(result.body.end))
        /\ DateOf(call.event.end) = DayAfter(DateOf(call.event.start)) =>
              DateOf(result.body.end) = DayAfter(DateOf(call.new_date))
\* the search of the request ran on the calendars of the fallback mapping
SearchedFallback ==
    /\ found.success
    /\ \E i \in 1..Len(calls) : calls[i].op = "events.list" /\ calls[i].arg = "primary"

FoundIds == {found.events[k].id : k \in 1..Len(found.events)}

\* C29: a search over the fallback mapping, in which both logical calendars
\* are the provider's primary calendar, returns no provider event twice,
\* and when one provider event matches the request asks for no clarification
C29_FallbackSearchFindsEachOnce ==
    SearchedFallback =>
        /\ \A i, j \in 1..Len(found.events) :
              found.events[i].id = found.events[j].id => i = j
        /\ Cardinality(FoundIds) = 1 =>
              /\ ~SentTpl("MULTIPLE_EVENTS_FOUND")
              /\ ~SentTpl("MULTIPLE_EVENTS_DELETE")
\* the mapping the registry gave the request: the user's entry of the
\* cache, or the fallback when the resolve failed
MappingUsed == IF user_id \in DOMAIN cache THEN cache[user_id] ELSE FallbackCalendars

\* the logical calendar the label of a confirmation names
NamedCalendar(label) == IF label = "Prace" THEN "work" ELSE "personal"

\* C30: the calendar an EVENT intent inserted its event into is the one the
\* registry resolved for the category of the result, and it is the logical
\* calendar the confirmation names, whatever category the classifier gave
C30_ConfirmationNamesCalendarUsed ==
    Branch(intent_data) = "EVENT" =>
        \A i \in 1..Len(calls), j \in 1..Len(sent) :
            (/\ calls[i].op = "events.insert"
             /\ calls[i].ok
             /\ sent[j].tpl = "EVENT_CREATED") =>
                /\ calls[i].arg = MappingUsed[NamedCalendar(sent[j].label)]
                /\ intent_data.category \in DOMAIN MappingUsed =>
                      calls[i].arg = MappingUsed[intent_data.category]
====
